---- MODULE Spec2Model ----
(***************************************************************************)
(* Model of the fix-orchestration core of sonar-agent:                     *)
(*   - IssueTracker          (src/src/sonar_agent/sonar/issue_tracker.py)  *)
(*   - MistralAIClient       (src/src/sonar_agent/ai/mistral_client.py)    *)
(*   - AICodeFixer           (src/src/sonar_agent/ai_client.py)            *)
(*   - GitLabBatchCommitter  (src/src/sonar_agent/gitlab_client.py)        *)
(*   - GitHubBatchCommitter  (src/src/sonar_agent/git/github_client.py)    *)
(*   - SonarAgentApp         (src/src/sonar_agent/main.py)                 *)
(*   - CodeSmellProcessor    (src/src/sonar_agent/code_smell_processor.py) *)
(* Each component has its own specification over the shared variables.     *)
(***************************************************************************)
EXTENDS Integers, Sequences, FiniteSets, TLC

VARIABLES
    \* ---- IssueTracker ----
    fixed_issues,   \* rows of table fixed_issues (a set of records)
    next_id,        \* next value of the AUTOINCREMENT primary key
    clock,          \* latest reading of datetime.now(), in days
    tracker_call,   \* the last IssueTracker call: operation, arguments, result
    \* ---- Completion client (MistralAIClient or AICodeFixer) ----
    client,         \* which class the completion client is
    mock_mode,      \* AICodeFixer.mock_mode
    model,          \* self.model
    max_retries,    \* MistralAIClient.max_retries
    total_usage,    \* self.total_usage
    pc,             \* position of _make_request: "idle" or "request"
    attempt,        \* loop variable of _make_request
    prompt_tokens,  \* prompt token estimate handed to _make_request
    requests_made,  \* requests.post calls made by the call in progress
    slept,          \* time.sleep delays (ms) taken by the call in progress
    client_call,    \* the last client operation and what it returned
    returned_sum,   \* sum of the usages returned by calls since construction/reset
    \* ---- Batch committers ----
    variant,        \* "gitlab" (GitLabBatchCommitter) or "github" (GitHubBatchCommitter)
    batch_size,     \* self.batch_size
    pending_files,  \* self.pending_files, in insertion order
    commit_count,   \* self.commit_count
    batch_call,     \* the last committer call and what it returned
    successful_flushes, \* commit_batch calls so far that committed at least one file
    \* ---- SonarAgentApp (one run) ----
    run_pc,         \* position of run(): "configuring", "clients_ready", "processing",
                    \* "done" (returned) or "error_exit" (sys.exit(1))
    phases,         \* the phases of run() entered so far, in order
    config,         \* the configuration values the run reads
    rule_prompt_map,\* keys of rule_prompt_map
    working_branch, \* self.working_branch
    current_branch, \* current_branch of _process_code_smells
    fetched_smells, \* the findings _fetch_code_smells returned
    unfixed_smells, \* unfixed_smells of _process_code_smells
    smell_index,    \* position of the loop in unfixed_smells (from 1)
    results,        \* results of _process_code_smells
    host_calls,     \* the requests the run sent to the Git host, in order
    registered,     \* the mark_issue_fixed calls of the run, in order
    added,          \* the batch_committer.add_file calls of the run, in order
    store_at_start, \* the fingerprint store when the run started
    ai_calls,       \* the fix_code_smell calls of the run and what they returned
    summary,        \* the counts _print_summary reports, None before
    \* ---- Extraction of the fixed file from an AI response ----
    ai_response,    \* the response text, a sequence of tokens
    extract_call    \* the last extraction call and what it returned

trackerVars == <<fixed_issues, next_id, clock, tracker_call>>
clientVars == <<client, mock_mode, model, max_retries, total_usage, pc, attempt,
                prompt_tokens, requests_made, slept, client_call, returned_sum>>
batchVars == <<variant, batch_size, pending_files, commit_count, batch_call,
               successful_flushes>>
runVars == <<run_pc, phases, config, rule_prompt_map, working_branch, current_branch,
             fetched_smells, unfixed_smells, smell_index, results, host_calls,
             registered, added, store_at_start, ai_calls, summary, phases>>
extractVars == <<ai_response, extract_call>>
vars == <<trackerVars, clientVars, batchVars, runVars, extractVars>>

\* Python's None for Optional[str] values.
None == "None"

-----------------------------------------------------------------------------
(***************************************************************************)
(* IssueTracker                                                            *)
(***************************************************************************)

\* Bounds of the tracker model.
MaxId == 2
MaxTime == 1
MaxDays == 1

\* CodeSmell objects handed to the tracker (key, file_path, rule, message).
Smells ==
    { [key |-> "k1", file_path |-> "A.java", rule |-> "java:S1", message |-> "m1"],
      [key |-> "k2", file_path |-> "B.java", rule |-> "java:S2", message |-> "m2"] }

Branches == {"main", "fix"}
Contents == {"", "a"}
OptContents == Contents \cup {None}
\* (commit_id, file_content) arguments of mark_issue_fixed.
MarkInputs == { <<None, "">>, <<"c1", "a">> }

\* hashlib.sha256(content.encode('utf-8')).hexdigest(), first 8 hex digits.
calculate_file_hash(file_content) ==
    CASE file_content = "" -> "e3b0c442"
      [] file_content = "a" -> "ca978112"
      [] file_content = "b" -> "3e23e816"

\* SELECT ... WHERE issue_key = ? AND branch = ?
select_rows(db, issue_key, branch) ==
    {r \in db : r.issue_key = issue_key /\ r.branch = branch}

\* A DELETE that matches the issue key only.
remove_fixed_issue_any_branch(db, issue_key, branch) ==
    {r \in db : r.issue_key # issue_key}

\* DELETE FROM fixed_issues WHERE issue_key = ? AND branch = ?
remove_fixed_issue(db, issue_key, branch) ==
    db \ select_rows(db, issue_key, branch)

\* A plain INSERT into a table without the UNIQUE(issue_key, branch) constraint.
insert_plain(db, row) ==
    db \cup {row}

\* INSERT OR IGNORE: on a conflict the existing row is kept.
insert_or_ignore(db, row) ==
    IF select_rows(db, row.issue_key, row.branch) # {} THEN db ELSE db \cup {row}

\* INSERT OR REPLACE under UNIQUE(issue_key, branch): the conflicting row is
\* deleted, then the new row is inserted.
insert_or_replace(db, row) ==
    remove_fixed_issue(db, row.issue_key, row.branch) \cup {row}

\* The row mark_issue_fixed writes.
fixed_issue_row(id, smell, branch, commit_id, file_content, now) ==
    [ id |-> id, issue_key |-> smell.key, file_path |-> smell.file_path,
      rule |-> smell.rule, message |-> smell.message, branch |-> branch,
      commit_id |-> commit_id, fixed_at |-> now,
      file_hash |-> IF file_content # None /\ file_content # ""
                    THEN calculate_file_hash(file_content) ELSE "" ]

\* mark_issue_fixed when no sqlite3.Error is raised: the table afterwards.
mark_issue_fixed(db, id, smell, branch, commit_id, file_content, now) ==
    insert_or_replace(db, fixed_issue_row(id, smell, branch, commit_id, file_content, now))

\* is_issue_fixed ignoring current_file_content.
is_issue_fixed_trusting(db, key, branch, current_file_content) ==
    [result |-> select_rows(db, key, branch) # {}, db |-> db]

\* A lookup that verifies the record against the empty content when it is
\* given none.
is_issue_fixed_verifying_empty(db, key, branch, current_file_content) ==
    LET found == select_rows(db, key, branch)
        content == IF current_file_content = None THEN "" ELSE current_file_content
    IN
    IF found = {} THEN [result |-> FALSE, db |-> db]
    ELSE LET stored_hash == (CHOOSE r \in found : TRUE).file_hash IN
         IF calculate_file_hash(content) # stored_hash
         THEN [result |-> FALSE, db |-> remove_fixed_issue(db, key, branch)]
         ELSE [result |-> TRUE, db |-> db]

\* is_issue_fixed: the returned value and the table afterwards.
is_issue_fixed(db, key, branch, current_file_content) ==
    LET found == select_rows(db, key, branch) IN
    IF found = {} THEN [result |-> FALSE, db |-> db]
    ELSE LET stored_hash == (CHOOSE r \in found : TRUE).file_hash IN
         IF /\ current_file_content # None
            /\ calculate_file_hash(current_file_content) # stored_hash
         THEN [result |-> FALSE, db |-> remove_fixed_issue(db, key, branch)]
         ELSE [result |-> TRUE, db |-> db]

\* filter_unfixed_issues verifying each finding against an (empty) current content.
RECURSIVE filter_verifying(_, _, _)
filter_verifying(db, smells, branch) ==
    IF smells = <<>> THEN [unfixed |-> <<>>, db |-> db]
    ELSE LET r == is_issue_fixed(db, Head(smells).key, branch, "")
             rest == filter_verifying(r.db, Tail(smells), branch)
         IN [unfixed |-> (IF r.result THEN <<>> ELSE <<Head(smells)>>) \o rest.unfixed,
             db |-> rest.db]

\* filter_unfixed_issues: the returned list and the table afterwards.
RECURSIVE filter_unfixed_issues(_, _, _)
filter_unfixed_issues(db, smells, branch) ==
    IF smells = <<>> THEN [unfixed |-> <<>>, db |-> db]
    ELSE LET r == is_issue_fixed(db, Head(smells).key, branch, None)
             rest == filter_unfixed_issues(r.db, Tail(smells), branch)
         IN [unfixed |-> (IF r.result THEN <<>> ELSE <<Head(smells)>>) \o rest.unfixed,
             db |-> rest.db]

\* A retention sweep comparing with <= instead of <.
cleanup_rows_inclusive(db, cutoff_date) ==
    {r \in db : ~(r.fixed_at <= cutoff_date)}

\* DELETE FROM fixed_issues WHERE fixed_at < ?
cleanup_rows(db, cutoff_date) ==
    {r \in db : ~(r.fixed_at < cutoff_date)}

\* Lists of findings as the analysis server returns them: each issue once.
SmellSeqs ==
    {q \in UNION {[1..n -> Smells] : n \in 0..Cardinality(Smells)} :
        \A i, j \in DOMAIN q : q[i] = q[j] => i = j}

TrackerInit ==
    /\ fixed_issues = {}
    /\ next_id = 1
    /\ clock = 0
    /\ tracker_call = [op |-> "init"]

\* IssueTracker.is_issue_fixed(smell, branch, current_file_content)
IsIssueFixed ==
    /\ UNCHANGED <<clientVars, batchVars, runVars, extractVars>>
    /\ \E smell \in Smells, branch \in Branches, content \in OptContents :
           LET r == is_issue_fixed(fixed_issues, smell.key, branch, content) IN
           /\ fixed_issues' = r.db
           /\ tracker_call' = [op |-> "is_issue_fixed", key |-> smell.key, branch |-> branch,
                               content |-> content, result |-> r.result,
                               stored |-> {x.file_hash : x \in select_rows(fixed_issues, smell.key, branch)},
                               before |-> fixed_issues]
           /\ UNCHANGED <<next_id, clock>>

\* IssueTracker.mark_issue_fixed(smell, branch, commit_id, file_content); a
\* sqlite3.Error leaves the table alone and makes the call return False.
MarkIssueFixed ==
    /\ UNCHANGED <<clientVars, batchVars, runVars, extractVars>>
    /\ \E smell \in Smells, branch \in Branches, inp \in MarkInputs, elapsed \in 0..1 :
           /\ next_id <= MaxId
           /\ clock + elapsed <= MaxTime
           /\ clock' = clock + elapsed
           /\ \/ /\ fixed_issues' = mark_issue_fixed(fixed_issues, next_id, smell, branch,
                                                     inp[1], inp[2], clock')
                 /\ next_id' = next_id + 1
                 /\ tracker_call' = [op |-> "mark_issue_fixed", key |-> smell.key,
                                     branch |-> branch, commit_id |-> inp[1],
                                     content |-> inp[2], result |-> TRUE,
                                     replaced |-> select_rows(fixed_issues, smell.key, branch),
                                     before |-> fixed_issues]
              \/ /\ UNCHANGED <<fixed_issues, next_id>>
                 /\ tracker_call' = [op |-> "mark_issue_fixed", result |-> FALSE]

\* IssueTracker.filter_unfixed_issues(smells, branch)
FilterUnfixedIssues ==
    /\ UNCHANGED <<clientVars, batchVars, runVars, extractVars>>
    /\ \E smells \in SmellSeqs, branch \in Branches :
           LET r == filter_unfixed_issues(fixed_issues, smells, branch) IN
           /\ fixed_issues' = r.db
           /\ tracker_call' = [op |-> "filter_unfixed_issues", smells |-> smells,
                               branch |-> branch, result |-> r.unfixed,
                               before |-> fixed_issues]
           /\ UNCHANGED <<next_id, clock>>

\* IssueTracker.cleanup_old_entries(days_old)
CleanupOldEntries ==
    /\ UNCHANGED <<clientVars, batchVars, runVars, extractVars>>
    /\ \E days_old \in 0..MaxDays, elapsed \in 0..1 :
           /\ clock + elapsed <= MaxTime
           /\ clock' = clock + elapsed
           /\ fixed_issues' = cleanup_rows(fixed_issues, clock' - days_old)
           /\ tracker_call' = [op |-> "cleanup_old_entries", days_old |-> days_old,
                               now |-> clock', before |-> fixed_issues]
           /\ UNCHANGED next_id

TrackerNext ==
    \/ IsIssueFixed
    \/ MarkIssueFixed
    \/ FilterUnfixedIssues
    \/ CleanupOldEntries

-----------------------------------------------------------------------------
(***************************************************************************)
(* Properties of the IssueTracker (checked under TrackerSpec)              *)
(***************************************************************************)

\* The last call was is_issue_fixed with content supplied, for a pair that had a record.
VerifiedLookup ==
    /\ tracker_call.op = "is_issue_fixed"
    /\ tracker_call.content # None
    /\ tracker_call.stored # {}

\* C1: for a pair (F.key, B) with a record of stored hash H, is_issue_fixed(F, B,
\* content) returns true iff sha256(content) = H; on a mismatch it returns false and
\* the record of (F.key, B) is gone, so a second call with the same content returns
\* false as well and leaves the store without a record for the pair.
C1_VerifiedLookupIffHashMatches ==
    VerifiedLookup =>
        LET c == tracker_call
            again == is_issue_fixed(fixed_issues, c.key, c.branch, c.content)
        IN /\ \A H \in c.stored : c.result <=> (calculate_file_hash(c.content) = H)
           /\ ~c.result =>
                /\ select_rows(fixed_issues, c.key, c.branch) = {}
                /\ again.result = FALSE
                /\ select_rows(again.db, c.key, c.branch) = {}

\* C1 witness: a lookup with mismatching content that deleted a stale record, while
\* another record is still in the store.
C1_Witness ==
    /\ VerifiedLookup
    /\ ~tracker_call.result
    /\ tracker_call.stored = {"ca978112"}
    /\ fixed_issues # {}

\* C2: the store holds at most one record per (issue key, branch) pair.
C2_OneRecordPerKeyAndBranch ==
    \A r1, r2 \in fixed_issues :
        (r1.issue_key = r2.issue_key /\ r1.branch = r2.branch) => r1 = r2

\* C2 witness: a successful mark_issue_fixed for a pair that already had a record,
\* after which the table holds a single row.
C2_Witness ==
    /\ tracker_call.op = "mark_issue_fixed"
    /\ tracker_call.result
    /\ tracker_call.replaced # {}
    /\ Cardinality(fixed_issues) = 1

\* The last call was a successful mark_issue_fixed for a pair that was marked before.
MarkedAgain ==
    /\ tracker_call.op = "mark_issue_fixed"
    /\ tracker_call.result
    /\ tracker_call.replaced # {}

\* C3: after marking the same key on the same branch a second time, the store holds
\* exactly one record for the pair, with the commit id and the content hash of the
\* second call.
C3_SecondMarkReplacesRecord ==
    MarkedAgain =>
        LET c == tracker_call
            rows == select_rows(fixed_issues, c.key, c.branch)
        IN /\ Cardinality(rows) = 1
           /\ \A r \in rows :
                /\ r.commit_id = c.commit_id
                /\ r.file_hash = (IF c.content = "" THEN "" ELSE calculate_file_hash(c.content))

\* C3 witness: the second mark carried another commit id and another content than
\* the record it replaced.
C3_Witness ==
    /\ MarkedAgain
    /\ \E old \in tracker_call.replaced :
        /\ old.commit_id # tracker_call.commit_id
        /\ old.file_hash # ""
        /\ tracker_call.content = ""

\* C4: filter_unfixed_issues(findings, branch) returns exactly the findings without
\* a record for (key, branch), in input order, and leaves every record unchanged.
C4_FilterReturnsUnrecordedInOrder ==
    tracker_call.op = "filter_unfixed_issues" =>
        LET c == tracker_call
            Unrecorded(smell) == select_rows(c.before, smell.key, c.branch) = {}
        IN /\ c.result = SelectSeq(c.smells, Unrecorded)
           /\ fixed_issues = c.before

\* C4 witness: of two findings the first is returned and the second skipped, its
\* record holding the empty hash that matches no content.
C4_Witness ==
    /\ tracker_call.op = "filter_unfixed_issues"
    /\ Len(tracker_call.smells) = 2
    /\ tracker_call.result = <<tracker_call.smells[1]>>
    /\ \E r \in select_rows(fixed_issues, tracker_call.smells[2].key, tracker_call.branch) :
            r.file_hash = ""

\* C5: cleanup_old_entries(days) removes every record with fixed_at older than
\* now - days and leaves every other record present and unmodified, on every branch.
C5_CleanupRemovesExactlyOldRecords ==
    tracker_call.op = "cleanup_old_entries" =>
        LET c == tracker_call IN
        /\ \A r \in c.before :
             IF r.fixed_at < c.now - c.days_old THEN r \notin fixed_issues
                                                ELSE r \in fixed_issues
        /\ fixed_issues \subseteq c.before

\* C5 witness: one sweep removed a record and kept another whose timestamp is
\* exactly the cutoff.
C5_Witness ==
    /\ tracker_call.op = "cleanup_old_entries"
    /\ \E r \in tracker_call.before : r \notin fixed_issues
    /\ \E r \in fixed_issues : r.fixed_at = tracker_call.now - tracker_call.days_old

-----------------------------------------------------------------------------
(***************************************************************************)
(* Completion clients: MistralAIClient and AICodeFixer                     *)
(***************************************************************************)

\* Bounds of the client model.
MaxRetries == 2
MaxTokens == 2
MaxSessionTokens == 2

\* base_delay of MistralAIClient.__init__, in milliseconds.
BaseDelayMs == 1000

\* The end points of random.uniform(0, 1), in milliseconds.
Jitter == {0, 1000}

TokenCounts == 1..MaxTokens

\* TokenUsage() / MistralTokenUsage(): all counters zero. cost_usd is kept in
\* units of 10^-9 USD so that the per-token rates are integers.
ZeroUsage == [prompt_tokens |-> 0, completion_tokens |-> 0, total_tokens |-> 0, cost_usd |-> 0]

\* MistralCostCalculator.PRICING: USD per 1K tokens, i.e. 10^-9 USD per token times 10^6.
MistralPricing(m) ==
    CASE m = "mistral-tiny" -> [input |-> 250, output |-> 250]
      [] m = "mistral-small-latest" -> [input |-> 2000, output |-> 6000]
      [] m = "mistral-medium-latest" -> [input |-> 2700, output |-> 8100]
      [] m = "mistral-large-latest" -> [input |-> 8000, output |-> 24000]
      [] m = "codestral-latest" -> [input |-> 1000, output |-> 3000]
      [] OTHER -> [input |-> 2000, output |-> 6000]

\* MistralCostCalculator.calculate_cost
mistral_calculate_cost(m, prompt, completion) ==
    prompt * MistralPricing(m).input + completion * MistralPricing(m).output

\* A lookup that knows the Mistral table only.
FixerPricing_mistral_only(m) ==
    CASE m = "mistral-tiny" -> [input |-> 250, output |-> 250]
      [] m = "mistral-small" -> [input |-> 2000, output |-> 6000]
      [] m = "mistral-medium" -> [input |-> 2700, output |-> 8100]
      [] m = "mistral-large" -> [input |-> 8000, output |-> 24000]
      [] OTHER -> [input |-> 2000, output |-> 6000]

\* CostCalculator.MISTRAL_PRICING and GEMINI_PRICING, with the mistral-small default.
FixerPricing(m) ==
    CASE m = "mistral-tiny" -> [input |-> 250, output |-> 250]
      [] m = "mistral-small" -> [input |-> 2000, output |-> 6000]
      [] m = "mistral-medium" -> [input |-> 2700, output |-> 8100]
      [] m = "mistral-large" -> [input |-> 8000, output |-> 24000]
      [] m = "gemini-1.5-pro" -> [input |-> 1250, output |-> 5000]
      [] m = "gemini-1.5-flash" -> [input |-> 75, output |-> 300]
      [] m = "gemini-2.0-flash" -> [input |-> 75, output |-> 300]
      [] OTHER -> [input |-> 2000, output |-> 6000]

\* CostCalculator.calculate_cost
calculate_cost(m, prompt, completion) ==
    prompt * FixerPricing(m).input + completion * FixerPricing(m).output

\* dict.get(key, default)
Get(dict, key, default) ==
    IF key \in DOMAIN dict THEN dict[key] ELSE default

\* The "usage" objects a provider response may carry: none, a complete one, and a
\* partial one whose total is not the sum of its parts.
UsageReports ==
    { [k \in {} |-> 0],
      [prompt_tokens |-> 1, completion_tokens |-> 2, total_tokens |-> 3],
      [completion_tokens |-> 1, total_tokens |-> 5] }

ResponseContents == {"r1", "r2"}

\* What one requests.post attempt of _make_request can meet.
Failures == {"network_error", "bad_status", "bad_json", "no_choices"}

\* A total that is overwritten (=) where the code accumulates (+=).
add_usage_overwriting(total, usage) ==
    usage

\* self.total_usage.<counter> += usage.<counter>, for the four counters.
add_usage(total, usage) ==
    [ prompt_tokens |-> total.prompt_tokens + usage.prompt_tokens,
      completion_tokens |-> total.completion_tokens + usage.completion_tokens,
      total_tokens |-> total.total_tokens + usage.total_tokens,
      cost_usd |-> total.cost_usd + usage.cost_usd ]

\* The usage _process_response builds from the response's usage object and the
\* estimates of prompt and completion tokens.
response_usage(m, usage_data, prompt_estimate, completion_estimate) ==
    LET completion == Get(usage_data, "completion_tokens", completion_estimate)
        actual_prompt == Get(usage_data, "prompt_tokens", prompt_estimate)
    IN [ prompt_tokens |-> actual_prompt,
         completion_tokens |-> completion,
         total_tokens |-> Get(usage_data, "total_tokens", actual_prompt + completion),
         cost_usd |-> mistral_calculate_cost(m, actual_prompt, completion) ]

\* An except clause that catches only requests.RequestException.
caught_request_errors_only(failure) ==
    failure = "network_error"

\* except Exception in _make_request: every failure of an attempt is caught.
caught(failure) ==
    failure \in Failures

\* A loop that runs once more than range(self.max_retries + 1).
in_range_one_more(i, retries) ==
    i <= retries + 1

\* for attempt in range(self.max_retries + 1)
in_range(i, retries) ==
    i < retries + 1

\* if attempt < self.max_retries: the failed attempt is followed by a sleep.
sleeps_after(i, retries) ==
    i < retries

RECURSIVE Pow2(_)
Pow2(n) ==
    IF n = 0 THEN 1 ELSE 2 * Pow2(n - 1)

\* A delay that grows by 2 * attempt.
backoff_delay_linear(i, jitter) ==
    BaseDelayMs * 2 * i + jitter

\* delay = self.base_delay * (2 ** attempt) + random.uniform(0, 1), in milliseconds
backoff_delay(i, jitter) ==
    BaseDelayMs * Pow2(i) + jitter

ClientInit ==
    /\ client \in {"MistralAIClient", "AICodeFixer"}
    /\ mock_mode \in (IF client = "AICodeFixer" THEN BOOLEAN ELSE {FALSE})
    /\ model = (IF client = "MistralAIClient" THEN "mistral-small-latest"
                ELSE IF mock_mode THEN "mock-model" ELSE "mistral-small")
    /\ max_retries \in (IF client = "MistralAIClient" THEN 0..MaxRetries ELSE {0})
    /\ total_usage = ZeroUsage
    /\ pc = "idle"
    /\ attempt = 0
    /\ prompt_tokens = 0
    /\ requests_made = 0
    /\ slept = <<>>
    /\ client_call = [op |-> "init"]
    /\ returned_sum = ZeroUsage

\* The session may start another call (bounds the accumulated counters).
SessionOpen ==
    /\ pc = "idle"
    /\ total_usage.prompt_tokens < MaxSessionTokens

\* MistralAIClient.chat_completion up to the first iteration of _make_request.
ChatCompletion ==
    /\ UNCHANGED <<trackerVars, batchVars, runVars, extractVars>>
    /\ client = "MistralAIClient"
    /\ SessionOpen
    /\ \E estimate \in TokenCounts : prompt_tokens' = estimate
    /\ attempt' = 0
    /\ requests_made' = 0
    /\ slept' = <<>>
    /\ pc' = IF in_range(0, max_retries) THEN "request" ELSE "idle"
    /\ client_call' = [op |-> "chat_completion",
                       state |-> IF in_range(0, max_retries) THEN "running" ELSE "returned",
                       content |-> None, usage |-> ZeroUsage,
                       before |-> total_usage, history |-> <<>>]
    /\ UNCHANGED <<client, mock_mode, model, max_retries, total_usage, returned_sum>>

\* One iteration of the loop of _make_request whose request succeeds (status 200, a
\* body _process_response can read): the usage is accumulated and the call returns.
AttemptSucceeds ==
    /\ UNCHANGED <<trackerVars, batchVars, runVars, extractVars>>
    /\ client = "MistralAIClient"
    /\ pc = "request"
    /\ \E content \in ResponseContents, usage_data \in UsageReports,
          completion_estimate \in TokenCounts :
        LET usage == response_usage(model, usage_data, prompt_tokens, completion_estimate) IN
        /\ total_usage' = add_usage(total_usage, usage)
        /\ returned_sum' = [k \in DOMAIN returned_sum |-> returned_sum[k] + usage[k]]
        /\ client_call' = [client_call EXCEPT !.state = "returned", !.content = content,
                                              !.usage = usage,
                                              !.history = Append(@, content)]
    /\ requests_made' = requests_made + 1
    /\ pc' = "idle"
    /\ UNCHANGED <<client, mock_mode, model, max_retries, attempt, prompt_tokens, slept>>

\* One iteration whose request fails: a network error, a status other than 200, a
\* body that is not JSON, or a body _process_response cannot read (it raises before
\* it touches total_usage).
AttemptFails ==
    /\ UNCHANGED <<trackerVars, batchVars, runVars, extractVars>>
    /\ client = "MistralAIClient"
    /\ pc = "request"
    /\ requests_made' = requests_made + 1
    /\ \E failure \in Failures, jitter \in Jitter :
        IF ~caught(failure)
        THEN /\ pc' = "idle"
             /\ client_call' = [client_call EXCEPT !.state = "raised",
                                                   !.history = Append(@, failure)]
             /\ UNCHANGED <<attempt, slept>>
        ELSE /\ slept' = IF sleeps_after(attempt, max_retries)
                         THEN Append(slept, backoff_delay(attempt, jitter)) ELSE slept
             /\ IF in_range(attempt + 1, max_retries)
                THEN /\ attempt' = attempt + 1
                     /\ pc' = "request"
                     /\ client_call' = [client_call EXCEPT !.history = Append(@, failure)]
                ELSE /\ attempt' = attempt
                     /\ pc' = "idle"
                     /\ client_call' = [client_call EXCEPT !.state = "returned",
                                                           !.content = None,
                                                           !.usage = ZeroUsage,
                                                           !.history = Append(@, failure)]
    /\ UNCHANGED <<client, mock_mode, model, max_retries, total_usage, prompt_tokens,
                   returned_sum>>

\* AICodeFixer.fix_code_smell: the mock answer, a failed call of the provider, or
\* _call_ai (estimate, accumulate, extract).
FixCodeSmell ==
    /\ UNCHANGED <<trackerVars, batchVars, runVars, extractVars>>
    /\ client = "AICodeFixer"
    /\ SessionOpen
    /\ \/ /\ mock_mode
          /\ client_call' = [op |-> "fix_code_smell", state |-> "returned",
                             content |-> "mock", usage |-> ZeroUsage, before |-> total_usage]
          /\ UNCHANGED <<total_usage, returned_sum>>
       \/ /\ ~mock_mode
          /\ client_call' = [op |-> "fix_code_smell", state |-> "returned",
                             content |-> None, usage |-> ZeroUsage, before |-> total_usage]
          /\ UNCHANGED <<total_usage, returned_sum>>
       \/ /\ ~mock_mode
          /\ \E prompt \in TokenCounts, completion \in TokenCounts,
                extracted \in ResponseContents \cup {None} :
              LET usage == [prompt_tokens |-> prompt, completion_tokens |-> completion,
                            total_tokens |-> prompt + completion,
                            cost_usd |-> calculate_cost(model, prompt, completion)]
              IN /\ total_usage' = add_usage(total_usage, usage)
                 /\ returned_sum' = [k \in DOMAIN returned_sum |-> returned_sum[k] + usage[k]]
                 /\ client_call' = [op |-> "fix_code_smell", state |-> "returned",
                                    content |-> extracted, usage |-> usage,
                                    before |-> total_usage]
    /\ UNCHANGED <<client, mock_mode, model, max_retries, pc, attempt, prompt_tokens,
                   requests_made, slept>>

\* reset_usage of either client.
ResetUsage ==
    /\ UNCHANGED <<trackerVars, batchVars, runVars, extractVars>>
    /\ pc = "idle"
    /\ total_usage' = ZeroUsage
    /\ returned_sum' = ZeroUsage
    /\ client_call' = [op |-> "reset_usage", before |-> total_usage]
    /\ UNCHANGED <<client, mock_mode, model, max_retries, pc, attempt, prompt_tokens,
                   requests_made, slept>>

ClientNext ==
    \/ ChatCompletion
    \/ AttemptSucceeds
    \/ AttemptFails
    \/ FixCodeSmell
    \/ ResetUsage

-----------------------------------------------------------------------------
(***************************************************************************)
(* Properties of the completion clients (checked under ClientSpec)         *)
(***************************************************************************)

\* The attempts of the chat_completion call in progress or last returned, in order:
\* a failure kind, or the content of the response for an attempt that succeeded.
Attempts == client_call.history

Succeeded(h) == {i \in DOMAIN h : h[i] \in ResponseContents}

\* C6: a completion call attempts the request until the first success or until
\* max_retries + 1 attempts were made: it never makes more than max_retries + 1
\* requests, a call still running has failed in every attempt so far and has attempts
\* left, and a call that returned after a success returned the content of its first
\* successful attempt k after exactly k requests, else it made max_retries + 1 requests.
C6_RetriesUntilFirstSuccessOrLimit ==
    client_call.op = "chat_completion" =>
        /\ requests_made = Len(Attempts)
        /\ requests_made <= max_retries + 1
        /\ client_call.state = "running" =>
             /\ pc = "request"
             /\ Succeeded(Attempts) = {}
             /\ attempt = requests_made
             /\ requests_made <= max_retries
        /\ client_call.state = "returned" =>
             IF Succeeded(Attempts) # {}
             THEN LET k == CHOOSE i \in Succeeded(Attempts) :
                                \A j \in Succeeded(Attempts) : i <= j
                  IN /\ requests_made = k
                     /\ client_call.content = Attempts[k]
             ELSE requests_made = max_retries + 1

\* C6 witness: with max_retries = 2 the first attempt failed, the second succeeded,
\* and the call returned the second attempt's content after two requests.
C6_Witness ==
    /\ client_call.op = "chat_completion"
    /\ client_call.state = "returned"
    /\ max_retries = 2
    /\ Attempts = <<"bad_status", "r2">>
    /\ client_call.content = "r2"
    /\ requests_made = 2

\* The last chat_completion call is over and none of its attempts succeeded.
AllAttemptsFailed ==
    /\ client_call.op = "chat_completion"
    /\ client_call.state # "running"
    /\ Succeeded(Attempts) = {}

\* C7: when every attempt of a call fails (network error, status other than 200,
\* malformed body) the client raises nothing: after max_retries + 1 attempts it
\* returns absent content with a zero usage, and the session total is what it was
\* before the call.
C7_ExhaustedRetriesReturnAbsent ==
    AllAttemptsFailed =>
        /\ client_call.state = "returned"
        /\ Len(Attempts) = max_retries + 1
        /\ client_call.content = None
        /\ client_call.usage = ZeroUsage
        /\ total_usage = client_call.before

\* C7 witness: three failed attempts of three kinds, in a session whose total was
\* not zero before the call.
C7_Witness ==
    /\ AllAttemptsFailed
    /\ Attempts = <<"network_error", "bad_status", "no_choices">>
    /\ client_call.before # ZeroUsage
    /\ Len(slept) = 2

UsageCounters == {"prompt_tokens", "completion_tokens", "total_tokens", "cost_usd"}

\* C8: the session total starts at zero, always equals the sum of the usages the
\* calls returned since construction or the last reset, no counter of it decreases in
\* a step that is not reset_usage, and it goes from non-zero to zero only by reset_usage.
C8_TotalIsSumOfReturnedUsages ==
    /\ [](/\ total_usage = returned_sum
          /\ client_call.op = "init" => total_usage = ZeroUsage)
    /\ [][/\ client_call'.op # "reset_usage" =>
                \A k \in UsageCounters : total_usage'[k] >= total_usage[k]
          /\ (total_usage # ZeroUsage /\ total_usage' = ZeroUsage) =>
                client_call'.op = "reset_usage"]_vars

\* C8 witness: a call returned a non-zero usage in a session whose total was already
\* non-zero, so the total is the sum of two calls' usages.
C8_Witness ==
    /\ client_call.op \in {"chat_completion", "fix_code_smell"}
    /\ client_call.state = "returned"
    /\ client_call.usage # ZeroUsage
    /\ client_call.before # ZeroUsage
    /\ total_usage.total_tokens = client_call.before.total_tokens + client_call.usage.total_tokens

-----------------------------------------------------------------------------
(***************************************************************************)
(* Batch committers: GitLabBatchCommitter and GitHubBatchCommitter         *)
(***************************************************************************)

\* Bounds of the committer model.
MaxBatchSize == 2
MaxPending == 3
MaxCommits == 2

Paths == {"A.java", "B.java", "C.java"}
FileContents == {"a", "b"}

\* Position of file_path in the pending entries, 0 when it is not there.
IndexOf(pending, file_path) ==
    IF \E i \in DOMAIN pending : pending[i].file_path = file_path
    THEN CHOOSE i \in DOMAIN pending : pending[i].file_path = file_path
    ELSE 0

\* GitLabBatchCommitter.add_file: self.pending_files.append(gitlab_file)
gitlab_add_file(pending, file_path, content) ==
    Append(pending, [file_path |-> file_path, content |-> content])

\* GitHubBatchCommitter.add_file: self.pending_files[file_path] = content (a dict
\* keeps the position of a key that is assigned again).
github_add_file(pending, file_path, content) ==
    IF IndexOf(pending, file_path) = 0
    THEN Append(pending, [file_path |-> file_path, content |-> content])
    ELSE [pending EXCEPT ![IndexOf(pending, file_path)].content = content]

\* A committer that never asks for a flush.
should_commit_never(pending, size) ==
    FALSE

\* should_commit of both committers
should_commit(pending, size) ==
    Len(pending) >= size

\* A per-file loop that stops at the first file the host rejects.
RECURSIVE github_update_files_until_failure(_, _, _)
github_update_files_until_failure(files, accepts, i) ==
    IF i > Len(files) THEN [attempted |-> <<>>, successful |-> <<>>, failed |-> <<>>]
    ELSE IF ~accepts[i]
         THEN [attempted |-> <<files[i].file_path>>, successful |-> <<>>,
               failed |-> <<files[i].file_path>>]
         ELSE LET rest == github_update_files_until_failure(files, accepts, i + 1)
              IN [attempted |-> <<files[i].file_path>> \o rest.attempted,
                  successful |-> <<files[i].file_path>> \o rest.successful,
                  failed |-> rest.failed]

\* The loop of GitHubBatchCommitter.commit_batch from the i-th pending file on:
\* update_file is called for each file; accepts[i] tells whether the host takes it.
RECURSIVE github_update_files(_, _, _)
github_update_files(files, accepts, i) ==
    IF i > Len(files) THEN [attempted |-> <<>>, successful |-> <<>>, failed |-> <<>>]
    ELSE LET rest == github_update_files(files, accepts, i + 1)
         IN [attempted |-> <<files[i].file_path>> \o rest.attempted,
             successful |-> IF accepts[i] THEN <<files[i].file_path>> \o rest.successful
                            ELSE rest.successful,
             failed |-> IF accepts[i] THEN rest.failed
                        ELSE <<files[i].file_path>> \o rest.failed]

\* A commit_batch that counts one commit per file the host accepted.
github_commit_batch_counting_files(pending, count, accepts) ==
    LET loop == github_update_files(pending, accepts, 1) IN
    IF pending = <<>>
    THEN [pending |-> pending, count |-> count, success |-> TRUE,
          attempted |-> <<>>, successful |-> <<>>, failed |-> <<>>]
    ELSE [pending |-> <<>>, count |-> count + Len(loop.successful),
          success |-> (loop.failed = <<>> \/ Len(loop.successful) > 0),
          attempted |-> loop.attempted, successful |-> loop.successful,
          failed |-> loop.failed]

\* GitHubBatchCommitter.commit_batch: the committer's state afterwards, the
\* CommitResult's success, and the update_file calls made.
github_commit_batch(pending, count, accepts) ==
    LET loop == github_update_files(pending, accepts, 1) IN
    IF pending = <<>>
    THEN [pending |-> pending, count |-> count, success |-> TRUE,
          attempted |-> <<>>, successful |-> <<>>, failed |-> <<>>]
    ELSE [pending |-> <<>>, count |-> count + 1,
          success |-> IF loop.failed # <<>> THEN Len(loop.successful) > 0 ELSE TRUE,
          attempted |-> loop.attempted, successful |-> loop.successful,
          failed |-> loop.failed]

\* A commit_batch that empties the pending list whatever the host answered.
gitlab_commit_batch_clearing(pending, count, accepts) ==
    LET paths == [i \in DOMAIN pending |-> pending[i].file_path] IN
    IF pending = <<>>
    THEN [pending |-> pending, count |-> count, success |-> FALSE,
          attempted |-> <<>>, successful |-> <<>>, failed |-> <<>>]
    ELSE [pending |-> <<>>,
          count |-> count + 1,
          success |-> accepts[1],
          attempted |-> paths,
          successful |-> IF accepts[1] THEN paths ELSE <<>>,
          failed |-> IF accepts[1] THEN <<>> ELSE paths]

\* GitLabBatchCommitter.commit_batch: one batch_commit call for all pending files;
\* accepts[1] tells whether the host takes the commit.
gitlab_commit_batch(pending, count, accepts) ==
    LET paths == [i \in DOMAIN pending |-> pending[i].file_path] IN
    IF pending = <<>>
    THEN [pending |-> pending, count |-> count, success |-> FALSE,
          attempted |-> <<>>, successful |-> <<>>, failed |-> <<>>]
    ELSE [pending |-> IF accepts[1] THEN <<>> ELSE pending,
          count |-> count + 1,
          success |-> accepts[1],
          attempted |-> paths,
          successful |-> IF accepts[1] THEN paths ELSE <<>>,
          failed |-> IF accepts[1] THEN <<>> ELSE paths]

BatchInit ==
    /\ variant \in {"gitlab", "github"}
    /\ batch_size \in 1..MaxBatchSize
    /\ pending_files = <<>>
    /\ commit_count = 0
    /\ batch_call = [op |-> "init"]
    /\ successful_flushes = 0

\* add_file(file_path, content) of the configured committer
AddFile ==
    /\ UNCHANGED <<trackerVars, clientVars, runVars, extractVars>>
    /\ Len(pending_files) < MaxPending
    /\ \E file_path \in Paths, content \in FileContents :
        /\ pending_files' = IF variant = "gitlab"
                            THEN gitlab_add_file(pending_files, file_path, content)
                            ELSE github_add_file(pending_files, file_path, content)
        /\ batch_call' = [op |-> "add_file", file_path |-> file_path, content |-> content,
                          before |-> pending_files, count_before |-> commit_count]
    /\ UNCHANGED <<variant, batch_size, commit_count, successful_flushes>>

\* commit_batch(branch) of the configured committer. The host answers each call the
\* committer makes: one batch_commit (GitLab) or one update_file per file (GitHub).
CommitBatch ==
    /\ UNCHANGED <<trackerVars, clientVars, runVars, extractVars>>
    /\ commit_count < MaxCommits
    /\ \E accepts \in [1..(IF variant = "gitlab" THEN 1 ELSE Len(pending_files)) -> BOOLEAN] :
        LET r == IF variant = "gitlab"
                 THEN gitlab_commit_batch(pending_files, commit_count, accepts)
                 ELSE github_commit_batch(pending_files, commit_count, accepts)
        IN /\ pending_files' = r.pending
           /\ commit_count' = r.count
           /\ batch_call' = [op |-> "commit_batch", success |-> r.success,
                             attempted |-> r.attempted, successful |-> r.successful,
                             failed |-> r.failed, before |-> pending_files,
                             count_before |-> commit_count]
           /\ successful_flushes' = successful_flushes +
                                       (IF r.successful # <<>> THEN 1 ELSE 0)
    /\ UNCHANGED <<variant, batch_size>>

BatchNext ==
    \/ AddFile
    \/ CommitBatch

-----------------------------------------------------------------------------
(***************************************************************************)
(* Properties of the batch committers (checked under BatchSpec)            *)
(***************************************************************************)

\* The file paths of pending entries, in order.
PathsOf(pending) == [i \in DOMAIN pending |-> pending[i].file_path]

Range(seq) == {seq[i] : i \in DOMAIN seq}

DistinctPaths(pending) ==
    \A i, j \in DOMAIN pending : pending[i].file_path = pending[j].file_path => i = j

\* The last call was a commit_batch of a full batch (as many files as the threshold,
\* all of distinct paths) and the host accepted every file of it.
FullBatchAccepted ==
    /\ batch_call.op = "commit_batch"
    /\ Len(batch_call.before) = batch_size
    /\ DistinctPaths(batch_call.before)
    /\ batch_call.successful = PathsOf(batch_call.before)
    /\ batch_call.failed = <<>>

\* C9: with threshold N, flushing N pending files of distinct paths against a host
\* that accepts every file leaves no pending file and the commit counter one higher
\* than before the flush, for both committers.
C9_FullBatchFlushRoundTrip ==
    FullBatchAccepted =>
        /\ pending_files = <<>>
        /\ commit_count = batch_call.count_before + 1
        /\ batch_call.success

\* C9 witness: the per-file committer flushed a full batch of two accepted files.
C9_Witness ==
    /\ FullBatchAccepted
    /\ variant = "github"
    /\ batch_size = 2
    /\ batch_call.count_before = 1

\* What C10 says of one flush of the per-file committer.
PerFileFlushContract ==
    /\ batch_call.attempted = PathsOf(batch_call.before)
    /\ batch_call.success <=> Len(batch_call.successful) > 0
    /\ Range(batch_call.successful) \cup Range(batch_call.failed) = Range(batch_call.attempted)
    /\ Range(batch_call.successful) \cap Range(batch_call.failed) = {}
    /\ Len(batch_call.successful) + Len(batch_call.failed) = Len(batch_call.before)
    /\ Len(batch_call.successful) > 0 => pending_files = <<>>

\* C10 as stated: in per-file mode every flush attempts each pending file once
\* whatever failed before it, reports success exactly when at least one file
\* succeeded, partitions the pending files into succeeded and failed, and leaves no
\* pending entry after a flush with a success.
C10_PerFileFlushAnyBatch ==
    (variant = "github" /\ batch_call.op = "commit_batch") => PerFileFlushContract

\* C10 amended: the same for every flush of a batch that is not empty (the flush of an
\* empty batch reports success although no file succeeded).
C10_PerFileFlushNonEmptyBatch ==
    (variant = "github" /\ batch_call.op = "commit_batch" /\ batch_call.before # <<>>)
        => PerFileFlushContract

\* C10 witness: of three pending files the host rejected the first and accepted the
\* two after it; the flush reported success and cleared the batch.
C10_Witness ==
    /\ variant = "github"
    /\ batch_call.op = "commit_batch"
    /\ Len(batch_call.before) = 3
    /\ batch_call.failed = <<batch_call.before[1].file_path>>
    /\ Len(batch_call.successful) = 2
    /\ batch_call.success
    /\ pending_files = <<>>

\* The last call was a commit_batch of pending files of which the host took none:
\* the one atomic commit was rejected, or every per-file update failed.
FlushFailedTotally ==
    /\ batch_call.op = "commit_batch"
    /\ batch_call.before # <<>>
    /\ batch_call.successful = <<>>

\* C11: after a flush that fails totally the pending entries are exactly the pending
\* entries before it, so that a later flush can retry them.
C11_TotalFailureKeepsPending ==
    FlushFailedTotally => pending_files = batch_call.before

\* C12: the commit counter equals the number of flushes in which at least one file
\* was committed; empty flushes and totally failed flushes do not change it.
C12_CounterCountsSuccessfulFlushes ==
    commit_count = successful_flushes

\* C13: flushing an empty batch returns success = true, calls the host for no file
\* and leaves the commit counter unchanged, for both committers.
C13_EmptyFlushIsNoOpSuccess ==
    (batch_call.op = "commit_batch" /\ batch_call.before = <<>>) =>
        /\ batch_call.success
        /\ batch_call.attempted = <<>>
        /\ commit_count = batch_call.count_before
        /\ pending_files = <<>>

\* The positions of the pending entries for file_path.
EntriesFor(pending, file_path) ==
    {i \in DOMAIN pending : pending[i].file_path = file_path}

\* C14: add_file is an upsert keyed by path that commits nothing: after it the
\* pending entries hold exactly one entry for the added path, with the added content,
\* every other path keeps its entries, the commit counter is unchanged, and
\* should_commit compares the number of distinct pending paths with the threshold.
C14_AddFileUpsertsByPath ==
    batch_call.op = "add_file" =>
        /\ Cardinality(EntriesFor(pending_files, batch_call.file_path)) = 1
        /\ \A i \in EntriesFor(pending_files, batch_call.file_path) :
              pending_files[i].content = batch_call.content
        /\ Range(PathsOf(pending_files)) =
              Range(PathsOf(batch_call.before)) \cup {batch_call.file_path}
        /\ commit_count = batch_call.count_before
        /\ should_commit(pending_files, batch_size) <=>
              Cardinality(Range(PathsOf(pending_files))) >= batch_size

-----------------------------------------------------------------------------
(***************************************************************************)
(* SonarAgentApp: one run of the orchestrator (src/src/sonar_agent/main.py) *)
(* with a Git host configured.  The run uses the IssueTracker, AICodeFixer *)
(* and the batch committer modelled above.                                 *)
(***************************************************************************)

\* Bound of the run model: findings the analysis server returns for one run.
MaxFetched == 2

\* self.issue_tracker.cleanup_old_entries(30)
RetentionDays == 30

\* branch_name of create_working_branch ("sonar-agent-fixes-<timestamp>").
WorkingBranch == "sonar-agent-fixes"

\* The branch the host serves when a contents request names no ref.
DefaultBranch == "main"

\* Findings of the analysed project: two with numeric rules in different files, one
\* more in the file of the first, and one whose rule key has no number after ":S".
SonarSmells ==
    Smells \cup
    { [key |-> "k3", file_path |-> "A.java", rule |-> "java:S3", message |-> "m3"],
      [key |-> "k4", file_path |-> "C.java",
       rule |-> "squid:SwitchLastCaseIsDefaultCheck", message |-> "m4"] }

\* get_code_smells: each issue once, at most MaxFetched of them.
FetchedSmells ==
    {q \in UNION {[1..n -> SonarSmells] : n \in 0..MaxFetched} :
        \A i, j \in DOMAIN q : q[i] = q[j] => i = j}

\* 'RSPEC-' + str(int(rule.split(":S")[1])) for the rules of SonarSmells;
\* "ValueError" where int() raises.
rspec_key(rule) ==
    CASE rule = "java:S1" -> "RSPEC-1"
      [] rule = "java:S2" -> "RSPEC-2"
      [] rule = "java:S3" -> "RSPEC-3"
      [] rule = "squid:SwitchLastCaseIsDefaultCheck" -> "ValueError"

\* The keys rule_prompt_map may hold: with and without a default template.
PromptMaps == { {"RSPEC-1", "DEFAULT_PROMPT"}, {"RSPEC-1"} }

\* Lines 277-298 of _process_code_smells: the key of the template used for the rule,
\* None when the iteration is left by 'continue' (int() raised, or neither a
\* rule template nor the default template exists).
resolve_prompt(prompts, rule) ==
    IF rspec_key(rule) = "ValueError" THEN None
    ELSE IF rspec_key(rule) \in prompts THEN rspec_key(rule)
    ELSE IF "DEFAULT_PROMPT" \in prompts THEN "DEFAULT_PROMPT"
    ELSE None

\* config['gitlab_branch'] or config['github_branch'] of the configured host.
base_branch(host, cfg) ==
    IF host = "gitlab" THEN cfg.gitlab_branch ELSE cfg.github_branch

\* Line 258: self.working_branch or config.get('gitlab_branch')
\*           or config.get('github_branch') or 'main'
current_branch_of(wb, host, cfg) ==
    IF wb # None THEN wb
    ELSE IF cfg.gitlab_branch # "" THEN cfg.gitlab_branch
    ELSE IF cfg.github_branch # "" THEN cfg.github_branch
    ELSE "main"

\* The contents request of get_file_content: GitLabClient sends ref; GitHubClient
\* sends no ref, and the host serves the default branch.
get_file_content(host, file_path, branch) ==
    IF host = "gitlab"
    THEN [op |-> "get_file_content", file_path |-> file_path, ref |-> branch,
          served |-> branch]
    ELSE [op |-> "get_file_content", file_path |-> file_path, ref |-> None,
          served |-> DefaultBranch]

\* The TokenUsage _call_ai returns (token estimates of one each).
call_usage(m) ==
    [prompt_tokens |-> 1, completion_tokens |-> 1, total_tokens |-> 2,
     cost_usd |-> calculate_cost(m, 1, 1)]

\* What fix_code_smell returns outside mock mode: (None, TokenUsage()) when the
\* provider call raises, else the extraction (None when no fence is found) and
\* the usage of the call.
\* fix_code_smell calls _call_ai once (line 146) and _call_ai invokes the
\* provider once (line 162): provider_calls is the number of invocations made
\* before fix_code_smell returned.
FixOutcomes(m) ==
    { [content |-> None, usage |-> ZeroUsage, raised |-> TRUE, provider_calls |-> 1] }
    \cup
    { [content |-> c, usage |-> call_usage(m), raised |-> FALSE, provider_calls |-> 1] :
        c \in {None, "b"} }

\* FixResult(smell, success, usage, error)
FixResult(smell, success, usage, error) ==
    [smell |-> smell.key, success |-> success, usage |-> usage, error |-> error]

\* A step that reports success although the branch could not be created.
branch_failure_result_success(smell, usage) ==
    FixResult(smell, TRUE, usage, None)

\* Lines 351-353: return FixResult(smell, False, usage, "Failed to create
\* working branch") when create_working_branch returned False.
branch_failure_result(smell, usage) ==
    FixResult(smell, FALSE, usage, "Failed to create working branch")

\* The host calls of one commit_batch, in order: one batch_commit for all files
\* (GitLab) or one update_file per file (GitHub).
commit_calls(host, branch, r) ==
    IF r.attempted = <<>> THEN <<>>
    ELSE IF host = "gitlab"
    THEN << [op |-> "batch_commit", branch |-> branch, files |-> r.attempted,
             ok |-> r.success] >>
    ELSE [i \in DOMAIN r.attempted |->
             [op |-> "update_file", branch |-> branch, files |-> <<r.attempted[i]>>,
              ok |-> \E j \in DOMAIN r.successful : r.successful[j] = r.attempted[i]]]

\* commit_batch of the configured committer.
commit_batch(host, pending, count, accepts) ==
    IF host = "gitlab" THEN gitlab_commit_batch(pending, count, accepts)
    ELSE github_commit_batch(pending, count, accepts)

\* add_file of the configured committer.
add_file(host, pending, file_path, content) ==
    IF host = "gitlab" THEN gitlab_add_file(pending, file_path, content)
    ELSE github_add_file(pending, file_path, content)

\* The answers of the host to the calls of one commit_batch.
Accepts(host, pending) ==
    [1..(IF host = "gitlab" THEN 1 ELSE Len(pending)) -> BOOLEAN]

\* A check of the fix that lets every answer of the AI through.
fix_accepted_always(content) ==
    TRUE

\* Line 309, 'if not fixed_content': the negation, for the values fix_code_smell returns.
fix_accepted(content) ==
    content # None /\ content # ""

\* A run that writes in dry-run mode too.
writes_enabled_always(cfg) ==
    TRUE

\* 'not config['dry_run']' (lines 323, 346 and 398).
writes_enabled(cfg) ==
    ~cfg.dry_run

\* A branch creation that is repeated for every fix.
needs_branch_always(wb) ==
    TRUE

\* Lines 351 and 373, 'if not self.working_branch'.
needs_branch(wb) ==
    wb = None

\* The fingerprint store a run can start with: empty, or holding the record an
\* earlier live run on base branch "main" left for finding k1, written today
\* or longer ago than the retention window.
PriorStore ==
    mark_issue_fixed({}, 1, CHOOSE s \in Smells : s.key = "k1", "main", None, "b", 0)

RunTrackerInit ==
    /\ \/ TrackerInit
       \/ /\ fixed_issues = PriorStore
          /\ next_id = 2
          /\ clock \in {0, RetentionDays + 1}
          /\ tracker_call = [op |-> "init"]

\* AICodeFixer as _initialize_clients builds it: with an API key, or mock.
RunClientInit ==
    ClientInit /\ client = "AICodeFixer"

\* SonarAgentApp() when run() is entered.  config holds what the arguments and
\* the environment will give _load_configuration; credentials says that
\* sonar_url, sonar_token and project_key are all there.  The clients that
\* _initialize_clients builds from it are the ones of the initial state.
RunInit ==
    /\ run_pc = "configuring"
    /\ phases = <<"Configuring">>
    /\ config \in { c \in [credentials : BOOLEAN, dry_run : BOOLEAN,
                           gitlab_branch : Branches,
                           github_branch : Branches, create_mr : BOOLEAN] :
                      IF variant = "gitlab" THEN c.github_branch = "main"
                      ELSE c.gitlab_branch = "main" }
    /\ rule_prompt_map \in PromptMaps
    /\ working_branch = None
    /\ current_branch = None
    /\ fetched_smells = <<>>
    /\ unfixed_smells = <<>>
    /\ smell_index = 1
    /\ results = <<>>
    /\ host_calls = <<>>
    /\ registered = <<>>
    /\ added = <<>>
    /\ store_at_start = fixed_issues
    /\ ai_calls = <<>>
    /\ summary = None

\* The loop of _process_code_smells is at a finding.
InLoop ==
    run_pc = "processing" /\ smell_index <= Len(unfixed_smells)

\* The finding of the current iteration.
ThisSmell == unfixed_smells[smell_index]

\* self._get_file_content(smell.file_path, config): the request sent to the host.
ReadCall ==
    get_file_content(variant, ThisSmell.file_path, base_branch(variant, config))

\* The effect of one fix_code_smell call on the AICodeFixer.
AICall(out) ==
    /\ total_usage' = add_usage(total_usage, out.usage)
    /\ returned_sum' = [k \in DOMAIN returned_sum |-> returned_sum[k] + out.usage[k]]
    /\ client_call' = [op |-> "fix_code_smell", state |-> "returned",
                       content |-> out.content, usage |-> out.usage,
                       before |-> total_usage]
    /\ ai_calls' = Append(ai_calls, [smell |-> ThisSmell.key, content |-> out.content,
                                     raised |-> out.raised,
                                     provider_calls |-> out.provider_calls])
    /\ UNCHANGED <<client, mock_mode, model, max_retries, pc, attempt, prompt_tokens,
                   requests_made, slept>>

\* The outcomes of a fingerprint-store call that has no except clause: the
\* statement runs, or sqlite3 raises (locked or unreadable database file).
StoreOutcomes == {"ok", "raises"}

\* run() lines 538-539: _load_configuration raises ValueError when a mandatory
\* value is missing, and the except clause of run() exits with status 1;
\* otherwise _initialize_clients builds the clients.
LoadConfiguration ==
    /\ UNCHANGED extractVars
    /\ run_pc = "configuring"
    /\ IF config.credentials
       THEN /\ run_pc' = "clients_ready"
            /\ phases' = Append(phases, "ClientsReady")
       ELSE /\ run_pc' = "error_exit"
            /\ UNCHANGED phases
    /\ UNCHANGED <<trackerVars, clientVars, batchVars, config, rule_prompt_map,
                   working_branch, current_branch, fetched_smells, unfixed_smells,
                   smell_index, results, host_calls, registered, added,
                   store_at_start, ai_calls, summary>>

\* run() up to the loop of _process_code_smells: fetch the findings, return when
\* there are none, else compute current_branch and filter the fixed findings.
\* is_issue_fixed has no except clause: an sqlite3 error in it leaves
\* filter_unfixed_issues and _process_code_smells and reaches the except clause
\* of run().
FetchCodeSmells ==
    /\ UNCHANGED extractVars
    /\ run_pc = "clients_ready"
    /\ \E fetched \in FetchedSmells, store \in StoreOutcomes :
        /\ fetched_smells' = fetched
        /\ IF fetched = <<>>
           THEN /\ store = "ok"
                /\ run_pc' = "done"
                /\ phases' = phases \o <<"FetchingFindings", "Done">>
                /\ UNCHANGED <<current_branch, unfixed_smells, fixed_issues, tracker_call>>
           ELSE IF store = "raises"
           THEN /\ run_pc' = "error_exit"
                /\ phases' = phases \o <<"FetchingFindings", "Processing">>
                /\ UNCHANGED <<current_branch, unfixed_smells, fixed_issues, tracker_call>>
           ELSE LET branch == current_branch_of(working_branch, variant, config)
                    r == filter_unfixed_issues(fixed_issues, fetched, branch)
                IN /\ run_pc' = "processing"
                   /\ phases' = phases \o <<"FetchingFindings", "Processing">>
                   /\ current_branch' = branch
                   /\ unfixed_smells' = r.unfixed
                   /\ fixed_issues' = r.db
                   /\ tracker_call' = [op |-> "filter_unfixed_issues", smells |-> fetched,
                                       branch |-> branch, result |-> r.unfixed,
                                       before |-> fixed_issues]
    /\ UNCHANGED <<next_id, clock, clientVars, batchVars, config, rule_prompt_map,
                   working_branch, smell_index, results, host_calls, registered,
                   added, store_at_start, ai_calls, summary>>

\* An iteration left by 'continue' at line 291 or 298: no prompt for the rule.
SkipWithoutPrompt ==
    /\ UNCHANGED extractVars
    /\ InLoop
    /\ resolve_prompt(rule_prompt_map, ThisSmell.rule) = None
    /\ smell_index' = smell_index + 1
    /\ UNCHANGED <<trackerVars, clientVars, batchVars, run_pc, config, rule_prompt_map,
                   working_branch, current_branch, fetched_smells, unfixed_smells,
                   results, host_calls, registered, added, store_at_start, ai_calls, summary, phases>>

\* An iteration in which the file cannot be read from the host (lines 300-305).
FileUnreadable ==
    /\ UNCHANGED extractVars
    /\ InLoop
    /\ resolve_prompt(rule_prompt_map, ThisSmell.rule) # None
    /\ host_calls' = Append(host_calls, ReadCall @@ [for |-> ThisSmell.key, ok |-> FALSE])
    /\ results' = Append(results, FixResult(ThisSmell, FALSE, ZeroUsage,
                                            "Could not read file from repository"))
    /\ smell_index' = smell_index + 1
    /\ UNCHANGED <<trackerVars, clientVars, batchVars, run_pc, config, rule_prompt_map,
                   working_branch, current_branch, fetched_smells, unfixed_smells,
                   registered, added, store_at_start, ai_calls, summary, phases>>

\* An iteration in mock mode: _mock_ai_response reads smell.start_line, which the
\* CodeSmell of sonar_client does not have; the AttributeError leaves the loop and
\* run() exits with status 1.
FixRaises ==
    /\ UNCHANGED extractVars
    /\ InLoop
    /\ resolve_prompt(rule_prompt_map, ThisSmell.rule) # None
    /\ mock_mode
    /\ host_calls' = Append(host_calls, ReadCall @@ [for |-> ThisSmell.key, ok |-> TRUE])
    /\ run_pc' = "error_exit"
    /\ UNCHANGED <<trackerVars, clientVars, batchVars, config, rule_prompt_map,
                   working_branch, current_branch, fetched_smells, unfixed_smells,
                   smell_index, results, registered, added, store_at_start, ai_calls, summary, phases>>

\* An iteration in which fix_code_smell returns no fix (lines 308-313).
AIReturnsNoFix ==
    /\ UNCHANGED extractVars
    /\ InLoop
    /\ resolve_prompt(rule_prompt_map, ThisSmell.rule) # None
    /\ ~mock_mode
    /\ \E out \in FixOutcomes(model) :
        /\ ~fix_accepted(out.content)
        /\ AICall(out)
        /\ results' = Append(results, FixResult(ThisSmell, FALSE, out.usage,
                                                "AI could not fix the issue"))
    /\ host_calls' = Append(host_calls, ReadCall @@ [for |-> ThisSmell.key, ok |-> TRUE])
    /\ smell_index' = smell_index + 1
    /\ UNCHANGED <<trackerVars, batchVars, run_pc, config, rule_prompt_map,
                   working_branch, current_branch, fetched_smells, unfixed_smells,
                   registered, added, store_at_start, summary, phases>>

\* An iteration with a fix in dry-run mode (_handle_single_fix, lines 346-348).
FixDryRun ==
    /\ UNCHANGED extractVars
    /\ InLoop
    /\ resolve_prompt(rule_prompt_map, ThisSmell.rule) # None
    /\ ~mock_mode
    /\ ~writes_enabled(config)
    /\ \E out \in FixOutcomes(model) :
        /\ fix_accepted(out.content)
        /\ AICall(out)
        /\ results' = Append(results, FixResult(ThisSmell, TRUE, out.usage, None))
    /\ host_calls' = Append(host_calls, ReadCall @@ [for |-> ThisSmell.key, ok |-> TRUE])
    /\ smell_index' = smell_index + 1
    /\ UNCHANGED <<trackerVars, batchVars, run_pc, config, rule_prompt_map,
                   working_branch, current_branch, fetched_smells, unfixed_smells,
                   registered, added, store_at_start, summary, phases>>

\* An iteration with a fix in live mode whose working branch cannot be created
\* (_handle_single_fix, lines 351-353).
FixBranchCreationFails ==
    /\ UNCHANGED extractVars
    /\ InLoop
    /\ resolve_prompt(rule_prompt_map, ThisSmell.rule) # None
    /\ ~mock_mode
    /\ writes_enabled(config)
    /\ needs_branch(working_branch)
    /\ \E out \in FixOutcomes(model) :
        /\ fix_accepted(out.content)
        /\ AICall(out)
        /\ results' = Append(results, branch_failure_result(ThisSmell, out.usage))
    /\ host_calls' = host_calls \o
          << ReadCall @@ [for |-> ThisSmell.key, ok |-> TRUE],
             [op |-> "create_branch", branch |-> WorkingBranch,
              ref |-> base_branch(variant, config), for |-> ThisSmell.key, ok |-> FALSE] >>
    /\ smell_index' = smell_index + 1
    /\ UNCHANGED <<trackerVars, batchVars, run_pc, config, rule_prompt_map,
                   working_branch, current_branch, fetched_smells, unfixed_smells,
                   registered, added, store_at_start, summary, phases>>

\* A registration under the branch the fixes are pushed to.
registration_branch_working(current, wb) ==
    wb

\* Lines 324-328: mark_issue_fixed(smell, current_branch, file_content=...), with
\* the current_branch computed before the loop.
registration_branch(current, wb) ==
    current

\* The result of a commit_batch that is not called.
NoFlush(pending, count) ==
    [pending |-> pending, count |-> count, success |-> TRUE,
     attempted |-> <<>>, successful |-> <<>>, failed |-> <<>>]

\* An iteration with a fix in live mode (_handle_single_fix, lines 351-365, then
\* lines 323-330): create the working branch if there is none, add the file, flush
\* when should_commit, record the success and mark the issue fixed under
\* current_branch.  'stored' is false when mark_issue_fixed meets an sqlite3.Error.
FixLive ==
    /\ UNCHANGED extractVars
    /\ InLoop
    /\ resolve_prompt(rule_prompt_map, ThisSmell.rule) # None
    /\ ~mock_mode
    /\ writes_enabled(config)
    /\ \E out \in FixOutcomes(model), stored \in BOOLEAN :
        LET creates == needs_branch(working_branch)
            pending1 == add_file(variant, pending_files, ThisSmell.file_path, out.content)
            flush == should_commit(pending1, batch_size)
        IN
        \E accepts \in (IF flush THEN Accepts(variant, pending1) ELSE {<<>>}) :
        LET r == IF flush THEN commit_batch(variant, pending1, commit_count, accepts)
                 ELSE NoFlush(pending1, commit_count)
            branch == registration_branch(current_branch, WorkingBranch)
        IN
        /\ fix_accepted(out.content)
        /\ AICall(out)
        /\ working_branch' = WorkingBranch
        /\ host_calls' = host_calls \o
              << ReadCall @@ [for |-> ThisSmell.key, ok |-> TRUE] >> \o
              (IF creates
               THEN << [op |-> "create_branch", branch |-> WorkingBranch,
                        ref |-> base_branch(variant, config), for |-> ThisSmell.key,
                        ok |-> TRUE] >>
               ELSE <<>>) \o
              commit_calls(variant, WorkingBranch, r)
        /\ added' = Append(added, [smell |-> ThisSmell.key,
                                   file_path |-> ThisSmell.file_path,
                                   content |-> out.content])
        /\ pending_files' = r.pending
        /\ commit_count' = r.count
        /\ successful_flushes' = successful_flushes +
                                    (IF r.successful # <<>> THEN 1 ELSE 0)
        /\ batch_call' =
              IF flush
              THEN [op |-> "commit_batch", success |-> r.success,
                    attempted |-> r.attempted, successful |-> r.successful,
                    failed |-> r.failed, before |-> pending1,
                    count_before |-> commit_count]
              ELSE [op |-> "add_file", file_path |-> ThisSmell.file_path,
                    content |-> out.content, before |-> pending_files,
                    count_before |-> commit_count]
        /\ results' = Append(results, FixResult(ThisSmell, TRUE, out.usage, None))
        /\ registered' = Append(registered, [smell |-> ThisSmell.key,
                                             branch |-> branch,
                                             content |-> out.content,
                                             result |-> stored])
        /\ IF stored
           THEN /\ fixed_issues' = mark_issue_fixed(fixed_issues, next_id, ThisSmell,
                                                    branch, None, out.content, clock)
                /\ next_id' = next_id + 1
                /\ tracker_call' = [op |-> "mark_issue_fixed", key |-> ThisSmell.key,
                                    branch |-> branch, commit_id |-> None,
                                    content |-> out.content, result |-> TRUE,
                                    replaced |-> select_rows(fixed_issues, ThisSmell.key,
                                                             branch)]
           ELSE /\ UNCHANGED <<fixed_issues, next_id>>
                /\ tracker_call' = [op |-> "mark_issue_fixed", result |-> FALSE]
    /\ smell_index' = smell_index + 1
    /\ UNCHANGED <<clock, variant, batch_size, run_pc, config, rule_prompt_map,
                   current_branch, fetched_smells, unfixed_smells, store_at_start,
                   summary, phases>>

\* A request for a merge/pull request that does not look at the caller's flag.
opens_merge_request_unasked(cfg, count) ==
    count > 0

\* Lines 407-408: (config['gitlab_create_mr'] or config['github_create_pr'])
\*                and self.batch_committer.commit_count > 0
opens_merge_request(cfg, count) ==
    cfg.create_mr /\ count > 0

\* The number of results with the given success flag.
count_results(rs, success) ==
    Cardinality({i \in DOMAIN rs : rs[i].success = success})

\* run() after the loop: _handle_git_operations (flush of the remaining files,
\* merge/pull request), cleanup_old_entries(30) and _print_summary.
\* cleanup_old_entries and get_branch_statistics (called by _print_summary at
\* line 479, before the counts are printed) have no except clause: an sqlite3
\* error in either reaches the except clause of run().
FinishRun ==
    /\ UNCHANGED extractVars
    /\ run_pc = "processing"
    /\ smell_index > Len(unfixed_smells)
    /\ LET git == writes_enabled(config) /\ working_branch # None
           flush == git /\ pending_files # <<>>
       IN
       \E accepts \in (IF flush THEN Accepts(variant, pending_files) ELSE {<<>>}) :
       LET r == IF flush THEN commit_batch(variant, pending_files, commit_count, accepts)
                ELSE NoFlush(pending_files, commit_count)
           opens == git /\ opens_merge_request(config, r.count)
       IN
       /\ pending_files' = r.pending
       /\ commit_count' = r.count
       /\ successful_flushes' = successful_flushes +
                                   (IF r.successful # <<>> THEN 1 ELSE 0)
       /\ batch_call' =
             IF flush
             THEN [op |-> "commit_batch", success |-> r.success,
                   attempted |-> r.attempted, successful |-> r.successful,
                   failed |-> r.failed, before |-> pending_files,
                   count_before |-> commit_count]
             ELSE batch_call
       /\ host_calls' = host_calls \o
             commit_calls(variant, working_branch, r) \o
             (IF opens
              THEN << [op |-> "create_merge_request", source |-> working_branch,
                       target |-> base_branch(variant, config)] >>
              ELSE <<>>)
    /\ \E cleanup \in StoreOutcomes, statistics \in StoreOutcomes :
        /\ cleanup = "raises" => statistics = "ok"
        /\ IF cleanup = "raises"
           THEN UNCHANGED <<fixed_issues, tracker_call>>
           ELSE /\ fixed_issues' = cleanup_rows(fixed_issues, clock - RetentionDays)
                /\ tracker_call' = [op |-> "cleanup_old_entries",
                                    days_old |-> RetentionDays,
                                    now |-> clock, before |-> fixed_issues]
        /\ IF cleanup = "raises" \/ statistics = "raises"
           THEN /\ run_pc' = "error_exit"
                /\ phases' = Append(phases, "Finalizing")
                /\ UNCHANGED summary
           ELSE /\ run_pc' = "done"
                /\ phases' = phases \o <<"Finalizing", "Done">>
                /\ summary' = [processed |-> Len(results),
                               succeeded |-> count_results(results, TRUE),
                               failed |-> count_results(results, FALSE)]
    /\ UNCHANGED <<next_id, clock, clientVars, variant, batch_size, config,
                   rule_prompt_map, working_branch, current_branch, fetched_smells,
                   unfixed_smells, smell_index, results, registered, added,
                   store_at_start, ai_calls>>

RunNext ==
    \/ LoadConfiguration
    \/ FetchCodeSmells
    \/ SkipWithoutPrompt
    \/ FileUnreadable
    \/ FixRaises
    \/ AIReturnsNoFix
    \/ FixDryRun
    \/ FixBranchCreationFails
    \/ FixLive
    \/ FinishRun

-----------------------------------------------------------------------------
(***************************************************************************)
(* Properties of a run of the orchestrator (checked under RunSpec)         *)
(***************************************************************************)

\* The phases of run() entered so far, as a set.
PhasesEntered == {phases[i] : i \in DOMAIN phases}

\* The requests of one kind the run sent to the host, in order.
HostCallsOf(kind) == SelectSeq(host_calls, LAMBDA c : c.op = kind)

\* The results recorded for the finding with the given key.
ResultsFor(key) == {j \in DOMAIN results : results[j].smell = key}

\* The run went through the loop and printed its summary.
RunSummarised == run_pc = "done" /\ fetched_smells # <<>>

\* C15: every finding that passes the already-fixed filter yields exactly one entry
\* in the results, a success or a failure with a reason, also when it is skipped for
\* want of a prompt template; so the summary's processed count is the number of
\* unfixed findings and processed = succeeded + failed.
C15_OneResultPerUnfixedFinding ==
    RunSummarised =>
        /\ \A i \in DOMAIN unfixed_smells :
              Cardinality(ResultsFor(unfixed_smells[i].key)) = 1
        /\ \A j \in DOMAIN results : ~results[j].success => results[j].error # None
        /\ summary.processed = Len(unfixed_smells)
        /\ summary.processed = summary.succeeded + summary.failed

\* C16: in live mode every successful fix is registered in the fingerprint store
\* under the working branch of the run, not under the base branch.
C16_RegisteredUnderWorkingBranch ==
    \A i \in DOMAIN registered :
        registered[i].result =>
            /\ registered[i].branch = working_branch
            /\ registered[i].branch = WorkingBranch

\* The fix_code_smell calls of the run that returned no fix.
AbsentFixes == {i \in DOMAIN ai_calls : ai_calls[i].content \in {None, ""}}

\* Position of the finding with the given key in unfixed_smells.
PositionOf(key) == CHOOSE p \in DOMAIN unfixed_smells : unfixed_smells[p].key = key

\* C17: when the AI returns no fix for a finding, the run records exactly one
\* result for it, a failure with a reason, adds no file for it to the batch,
\* registers no fingerprint for it, sends the host nothing but the read of its
\* file, and goes on to the next finding; and nothing is added to the batch,
\* left pending or committed but the non-absent result of an extraction.
C17_AbsentFixIsRecordedAndSkipped ==
    /\ \A i \in AbsentFixes :
          LET key == ai_calls[i].smell IN
          /\ Cardinality(ResultsFor(key)) = 1
          /\ \A j \in ResultsFor(key) : ~results[j].success /\ results[j].error # None
          /\ \A j \in DOMAIN added : added[j].smell # key
          /\ \A j \in DOMAIN registered : registered[j].smell # key
          /\ \A j \in DOMAIN host_calls :
                (host_calls[j].op \in {"get_file_content", "create_branch"}
                    /\ host_calls[j].for = key) => host_calls[j].op = "get_file_content"
          /\ run_pc = "error_exit" => "Finalizing" \in PhasesEntered
          /\ smell_index > PositionOf(key)
    /\ \A j \in DOMAIN added :
          \E i \in DOMAIN ai_calls \ AbsentFixes :
              ai_calls[i].smell = added[j].smell /\ ai_calls[i].content = added[j].content
    /\ \A p \in DOMAIN pending_files :
          \E j \in DOMAIN added : /\ added[j].file_path = pending_files[p].file_path
                                  /\ added[j].content = pending_files[p].content
    /\ \A j \in DOMAIN host_calls :
          host_calls[j].op \in {"batch_commit", "update_file"} =>
              \A f \in Range(host_calls[j].files) :
                  \E a \in DOMAIN added : added[a].file_path = f

\* C17 witness: a live run ended in which the AI returned no fix for the first
\* finding and the fix of the second was committed.
C17_Witness ==
    /\ RunSummarised
    /\ ~config.dry_run
    /\ Len(results) = 2
    /\ results[1].error = "AI could not fix the issue"
    /\ results[2].success
    /\ AbsentFixes = {1}
    /\ \E j \in DOMAIN host_calls :
          host_calls[j].op \in {"batch_commit", "update_file"} /\ host_calls[j].ok

\* What a dry run must not do to the Git host, the batch and the working branch, and
\* what it records for the fixes the AI returned.
DryRunWritesNothingToHost ==
    /\ working_branch = None
    /\ pending_files = <<>>
    /\ commit_count = 0
    /\ added = <<>>
    /\ registered = <<>>
    /\ \A j \in DOMAIN host_calls : host_calls[j].op = "get_file_content"
    /\ \A i \in DOMAIN ai_calls \ AbsentFixes :
          /\ Cardinality(ResultsFor(ai_calls[i].smell)) = 1
          /\ \A j \in ResultsFor(ai_calls[i].smell) : results[j].success

\* C18 as stated: in dry-run mode no write happens during the whole run: no working
\* branch, no file added or committed, no merge/pull request, no fingerprint record
\* created, nothing written to the fingerprint store; every finding with a
\* non-absent fix is recorded as a success.
C18_DryRunWritesNothing ==
    config.dry_run =>
        /\ DryRunWritesNothingToHost
        /\ fixed_issues = store_at_start

\* C18 amended: the same, except that the fingerprint store may lose records (the
\* retention purge at the end of the run still removes the old ones); no record
\* is created or changed.
C18_DryRunCreatesNothing ==
    config.dry_run =>
        /\ DryRunWritesNothingToHost
        /\ fixed_issues \subseteq store_at_start

\* C18 witness: a dry run ended with a success recorded, and its purge removed
\* the record an earlier run had left.
C18_Witness ==
    /\ config.dry_run
    /\ RunSummarised
    /\ summary.succeeded = 1
    /\ store_at_start # {}
    /\ fixed_issues = {}

\* The fixes of a live run that reached the commit step (_handle_single_fix).
ReadyFixes == SelectSeq(ai_calls, LAMBDA a : a.content \notin {None, ""})

\* The create_branch requests of the run, in order.
CreateCalls == HostCallsOf("create_branch")

\* C19 as stated: in a live run create-branch is invoked exactly once if at least
\* one fix reaches the commit step and never otherwise, when the first such fix is
\* ready, from the configured base branch.
C19_BranchCreatedExactlyOnce ==
    ~config.dry_run =>
        /\ Len(CreateCalls) = (IF ReadyFixes = <<>> THEN 0 ELSE 1)
        /\ \A i \in DOMAIN CreateCalls :
              /\ CreateCalls[i].for = ReadyFixes[1].smell
              /\ CreateCalls[i].ref = base_branch(variant, config)

\* C19 amended: in a live run create-branch is never invoked when no fix reaches
\* the commit step; otherwise it is invoked when the first such fix is ready and
\* again for each later such fix as long as every earlier invocation failed, always
\* from the configured base branch; at most one invocation succeeds and none
\* follows it.
C19_BranchCreatedUntilFirstSuccess ==
    ~config.dry_run =>
        /\ Len(CreateCalls) <= Len(ReadyFixes)
        /\ ReadyFixes # <<>> => CreateCalls # <<>>
        /\ \A i \in DOMAIN CreateCalls :
              /\ CreateCalls[i].for = ReadyFixes[i].smell
              /\ CreateCalls[i].ref = base_branch(variant, config)
              /\ CreateCalls[i].branch = WorkingBranch
              /\ i < Len(CreateCalls) => ~CreateCalls[i].ok
        /\ (CreateCalls # <<>> /\ ~CreateCalls[Len(CreateCalls)].ok)
              => Len(CreateCalls) = Len(ReadyFixes)
        /\ working_branch = WorkingBranch <=>
              (CreateCalls # <<>> /\ CreateCalls[Len(CreateCalls)].ok)

\* C19 witness: the creation failed for the first ready fix and succeeded for
\* the second.
C19_Witness ==
    /\ ~config.dry_run
    /\ Len(ReadyFixes) = 2
    /\ Len(CreateCalls) = 2
    /\ ~CreateCalls[1].ok
    /\ CreateCalls[2].ok
    /\ config.gitlab_branch = "fix"

\* C20: the original content of every finding's file is read from the host at
\* the configured scan-target branch and never at the working branch, for both
\* hosts, also after fixes of the same file were committed in the run.
C20_ReadsAtScanTargetBranch ==
    \A j \in DOMAIN host_calls :
        host_calls[j].op = "get_file_content" =>
            /\ host_calls[j].served = base_branch(variant, config)
            /\ host_calls[j].served # WorkingBranch

\* The merge/pull requests the run asked the host to open.
MergeRequests == HostCallsOf("create_merge_request")

\* A live run reached its end: _handle_git_operations has been called.
LiveRunEnded == "Finalizing" \in PhasesEntered /\ ~config.dry_run

\* C21: at the end of a live run a merge/pull request is opened if and only if
\* at least one fix succeeded and the caller requested it; at most one is opened,
\* after the flush of the remaining batch, from the working branch to the base
\* branch.  No request is opened before the end of the run or in a dry run.
C21_MergeRequestIffSuccessAndRequested ==
    /\ Len(MergeRequests) <= 1
    /\ MergeRequests # <<>> => LiveRunEnded
    /\ LiveRunEnded =>
          /\ MergeRequests # <<>> <=>
                (config.create_mr /\ count_results(results, TRUE) > 0)
          /\ MergeRequests # <<>> =>
                /\ host_calls[Len(host_calls)].op = "create_merge_request"
                /\ MergeRequests[1].source = WorkingBranch
                /\ MergeRequests[1].source = working_branch
                /\ MergeRequests[1].target = base_branch(variant, config)
                /\ \/ pending_files = <<>>
                   \/ /\ batch_call.op = "commit_batch"
                      /\ batch_call.before = pending_files
                      /\ ~batch_call.success

\* C21 witness: a live run on base branch "fix" ended with a request opened after
\* the file left in the batch was flushed by the final commit.
C21_Witness ==
    /\ LiveRunEnded
    /\ Len(MergeRequests) = 1
    /\ config.github_branch = "fix"
    /\ variant = "github"
    /\ batch_size = 2
    /\ Len(host_calls) >= 2
    /\ host_calls[Len(host_calls) - 1].op = "update_file"
    /\ host_calls[Len(host_calls) - 1].ok

\* C22: a run takes the error exit if and only if a mandatory credential (server
\* URL, token, project key) is missing at startup; failures of the fingerprint
\* store, of file reads, of AI calls and of commits never terminate the run.
C22_ErrorExitIffCredentialMissing ==
    /\ run_pc = "error_exit" => ~config.credentials
    /\ (~config.credentials /\ run_pc # "configuring") => run_pc = "error_exit"

\* C23: a failed AI call for a finding is retried (at least one further provider
\* call is made) before fix_code_smell gives up and the finding is recorded as
\* failed.
C23_FailedAICallIsRetried ==
    \A i \in DOMAIN ai_calls :
        ai_calls[i].raised => ai_calls[i].provider_calls > 1

\* C29: every run that returns without the error exit went through Configuring,
\* ClientsReady, FetchingFindings, Processing and Finalizing in this order before
\* Done, with the retention purge performed, whatever the server returned.
C29_EveryRunPassesAllPhases ==
    run_pc = "done" =>
        /\ phases = <<"Configuring", "ClientsReady", "FetchingFindings",
                      "Processing", "Finalizing", "Done">>
        /\ tracker_call.op = "cleanup_old_entries"

\* The model identifiers a client may be constructed with: the keys of its rate
\* table and one identifier that is not in it.
ModelNames(c) ==
    IF c = "MistralAIClient"
    THEN {"mistral-tiny", "mistral-small-latest", "mistral-medium-latest",
          "mistral-large-latest", "codestral-latest", "custom-model"}
    ELSE {"mistral-tiny", "mistral-small", "mistral-medium", "mistral-large",
          "gemini-1.5-pro", "gemini-1.5-flash", "gemini-2.0-flash", "custom-model"}

\* A completion client constructed with any model identifier and no retries.
CostClientInit ==
    /\ client \in {"MistralAIClient", "AICodeFixer"}
    /\ mock_mode \in (IF client = "AICodeFixer" THEN BOOLEAN ELSE {FALSE})
    /\ model \in (IF mock_mode THEN {"mock-model"} ELSE ModelNames(client))
    /\ max_retries = 0
    /\ total_usage = ZeroUsage
    /\ pc = "idle"
    /\ attempt = 0
    /\ prompt_tokens = 0
    /\ requests_made = 0
    /\ slept = <<>>
    /\ client_call = [op |-> "init"]
    /\ returned_sum = ZeroUsage

\* The rate table of each calculator: USD per 1000 tokens, in units of 10^-6 USD.
RateTable ==
    IF client = "MistralAIClient"
    THEN [m \in {"mistral-tiny", "mistral-small-latest", "mistral-medium-latest",
                 "mistral-large-latest", "codestral-latest"} |->
            CASE m = "mistral-tiny" -> [input |-> 250, output |-> 250]
              [] m = "mistral-small-latest" -> [input |-> 2000, output |-> 6000]
              [] m = "mistral-medium-latest" -> [input |-> 2700, output |-> 8100]
              [] m = "mistral-large-latest" -> [input |-> 8000, output |-> 24000]
              [] m = "codestral-latest" -> [input |-> 1000, output |-> 3000]]
    ELSE [m \in {"mistral-tiny", "mistral-small", "mistral-medium", "mistral-large",
                 "gemini-1.5-pro", "gemini-1.5-flash", "gemini-2.0-flash"} |->
            CASE m = "mistral-tiny" -> [input |-> 250, output |-> 250]
              [] m = "mistral-small" -> [input |-> 2000, output |-> 6000]
              [] m = "mistral-medium" -> [input |-> 2700, output |-> 8100]
              [] m = "mistral-large" -> [input |-> 8000, output |-> 24000]
              [] m = "gemini-1.5-pro" -> [input |-> 1250, output |-> 5000]
              [] m = "gemini-1.5-flash" -> [input |-> 75, output |-> 300]
              [] m = "gemini-2.0-flash" -> [input |-> 75, output |-> 300]]

\* The mistral-small entry of each table.
DefaultRates ==
    IF client = "MistralAIClient" THEN RateTable["mistral-small-latest"]
    ELSE RateTable["mistral-small"]

\* A call of the client returned a usage.
CostReturned ==
    /\ client_call.op \in {"chat_completion", "fix_code_smell"}
    /\ client_call.state = "returned"

\* C24: the cost a call reports is (p/1000)*inputRate + (c/1000)*outputRate with
\* the rates of the client's model when the model is in the rate table, and with
\* the rates of mistral-small when it is not, for the token counts p and c of
\* the usage.
C24_CostFollowsRateTable ==
    CostReturned =>
        LET u == client_call.usage
            rates == IF model \in DOMAIN RateTable THEN RateTable[model]
                     ELSE DefaultRates
        IN u.cost_usd = u.prompt_tokens * rates.input
                          + u.completion_tokens * rates.output

\* C24 witness: a client with a model identifier that is not in the table
\* returned a usage whose cost is that of (1, 2) tokens at the mistral-small rates.
C24_Witness ==
    /\ CostReturned
    /\ model = "custom-model"
    /\ client_call.usage.prompt_tokens = 1
    /\ client_call.usage.completion_tokens = 2
    /\ client_call.usage.cost_usd = 14000

\* The file of the finding with the given key, as handed to add_file.
AddedPathOf(key) ==
    (CHOOSE a \in Range(added) : a.smell = key).file_path

\* The host accepted a commit of the file on the working branch during the run.
CommittedOnWorkingBranch(file_path) ==
    \E j \in DOMAIN host_calls :
        /\ host_calls[j].op \in {"batch_commit", "update_file"}
        /\ host_calls[j].branch = WorkingBranch
        /\ host_calls[j].ok
        /\ file_path \in Range(host_calls[j].files)

\* C31: at the end of a live run every finding that mark_issue_fixed registered
\* during the run has its file committed on the working branch: no finding whose
\* file failed to commit or was dropped from the batch is registered as fixed.
C31_RegisteredOnlyAfterPush ==
    LiveRunEnded =>
        \A i \in DOMAIN registered :
            registered[i].result =>
                /\ \E a \in Range(added) : a.smell = registered[i].smell
                /\ CommittedOnWorkingBranch(AddedPathOf(registered[i].smell))

\* The findings the next run with the same configuration would process: what
\* its filter returns for the same findings on the store this run leaves.
NextRunUnfixed ==
    filter_unfixed_issues(fixed_issues, fetched_smells,
                          current_branch_of(None, variant, config)).unfixed

\* The findings this run registered as fixed.
RegisteredKeys == {registered[i].smell : i \in {j \in DOMAIN registered : registered[j].result}}

\* C34: the branch key under which a run registers its fixes is the branch key
\* it filtered with, so a finding fixed and registered in a live run is filtered
\* out by the next run with the same configuration and is not processed again.
C34_RegisteredIsFilteredByNextRun ==
    /\ \A i \in DOMAIN registered :
          registered[i].result => registered[i].branch = current_branch
    /\ (LiveRunEnded /\ run_pc = "done") =>
          \A p \in DOMAIN NextRunUnfixed : NextRunUnfixed[p].key \notin RegisteredKeys

\* C34 witness: a live GitLab run on base branch "fix" ended with a registered
\* finding, which the next run filters out while it keeps another finding.
C34_Witness ==
    /\ LiveRunEnded
    /\ run_pc = "done"
    /\ variant = "gitlab"
    /\ config.gitlab_branch = "fix"
    /\ RegisteredKeys # {}
    /\ NextRunUnfixed # <<>>

\* The number of create_branch requests among the first j host calls.
CreateCallsUpTo(j) ==
    Cardinality({i \in 1..j : host_calls[i].op = "create_branch"})

\* C35: when the creation of the working branch fails for a fix, the finding has
\* exactly one result, a failure with a reason; its file is not added to the
\* batch, no fingerprint is registered for it, nothing has been or is committed
\* in that step, the working branch stays unset while no creation succeeds, and
\* the next ready fix attempts the creation again.
C35_FailedBranchCreationIsRetried ==
    /\ \A j \in DOMAIN host_calls :
          (host_calls[j].op = "create_branch" /\ ~host_calls[j].ok) =>
              LET key == host_calls[j].for
                  n == CreateCallsUpTo(j)
              IN /\ Cardinality(ResultsFor(key)) = 1
                 /\ \A r \in ResultsFor(key) :
                       ~results[r].success /\ results[r].error # None
                 /\ \A a \in DOMAIN added : added[a].smell # key
                 /\ \A a \in DOMAIN registered : registered[a].smell # key
                 /\ \A i \in 1..j : host_calls[i].op \notin {"batch_commit", "update_file"}
                 /\ j < Len(host_calls) => host_calls[j + 1].op = "get_file_content"
                 /\ Len(ReadyFixes) > n =>
                       /\ Len(CreateCalls) > n
                       /\ CreateCalls[n + 1].for = ReadyFixes[n + 1].smell
    /\ (\A c \in DOMAIN CreateCalls : ~CreateCalls[c].ok) => working_branch = None

\* C35 witness: the creation failed for the first ready fix, was attempted again
\* and succeeded for the second, whose file was committed.
C35_Witness ==
    /\ Len(CreateCalls) = 2
    /\ ~CreateCalls[1].ok
    /\ CreateCalls[2].ok
    /\ Len(results) = 2
    /\ ~results[1].success
    /\ results[2].success
    /\ Len(added) = 1
    /\ host_calls[Len(host_calls)].op \in {"batch_commit", "update_file"}
    /\ host_calls[Len(host_calls)].ok

\* C33: whenever the orchestrator opens a merge/pull request, the host has
\* accepted a commit of at least one file of this run on the working branch.
C33_MergeRequestOnlyAfterCommit ==
    MergeRequests # <<>> =>
        \E a \in Range(added) : CommittedOnWorkingBranch(a.file_path)

\* The last tracker call was a mark_issue_fixed that succeeded or an
\* is_issue_fixed, for the pair (tracker_call.key, tracker_call.branch).
WroteOnePair ==
    \/ tracker_call.op = "mark_issue_fixed" /\ tracker_call.result
    \/ tracker_call.op = "is_issue_fixed"

\* The records of the store for other pairs than (key, branch).
OtherRecords(db, key, branch) == db \ select_rows(db, key, branch)

\* C36: mark_issue_fixed and the stale-record deletion of is_issue_fixed for a
\* pair (K, B) change only the record of (K, B): every record with another key or
\* another branch, and what is_issue_fixed returns for it, is the same before
\* and after the call.
C36_WritesTouchOnlyTheirPair ==
    WroteOnePair =>
        LET c == tracker_call IN
        /\ OtherRecords(fixed_issues, c.key, c.branch)
              = OtherRecords(c.before, c.key, c.branch)
        /\ \A s \in Smells, b \in Branches, content \in OptContents :
              (s.key # c.key \/ b # c.branch) =>
                  is_issue_fixed(fixed_issues, s.key, b, content).result
                    = is_issue_fixed(c.before, s.key, b, content).result

\* C36 witness: a verified lookup deleted the stale record of its pair while the
\* record of the same finding on the other branch stayed in the store.
C36_Witness ==
    /\ tracker_call.op = "is_issue_fixed"
    /\ tracker_call.stored # {}
    /\ ~tracker_call.result
    /\ select_rows(fixed_issues, tracker_call.key, tracker_call.branch) = {}
    /\ \E r \in fixed_issues :
          r.issue_key = tracker_call.key /\ r.branch # tracker_call.branch

\* C32: after mark_issue_fixed(F, B, file_content = c) succeeded for a content
\* string c, the empty string included, is_issue_fixed(F, B, c) returns true and
\* the record of (F.key, B) is still in the store.
C32_MarkThenLookupRoundTrip ==
    (/\ tracker_call.op = "mark_issue_fixed"
     /\ tracker_call.result
     /\ tracker_call.content # None) =>
        LET c == tracker_call
            lookup == is_issue_fixed(fixed_issues, c.key, c.branch, c.content)
        IN /\ lookup.result
           /\ select_rows(lookup.db, c.key, c.branch) # {}
           /\ lookup.db = fixed_issues

\* The last tracker call was is_issue_fixed without current content.
TrustingLookup ==
    /\ tracker_call.op = "is_issue_fixed"
    /\ tracker_call.content = None

\* C30: is_issue_fixed called without current content returns true exactly when
\* the store holds a record for (issue key, branch), and leaves every record of
\* the store as it was.
C30_LookupWithoutContentTrustsRecord ==
    TrustingLookup =>
        /\ tracker_call.result <=>
              (\E r \in tracker_call.before :
                   r.issue_key = tracker_call.key /\ r.branch = tracker_call.branch)
        /\ fixed_issues = tracker_call.before

\* C30 witness: a lookup without content found the record of a fix whose stored
\* hash is that of a non-empty file, returned true, and the record is still there.
C30_Witness ==
    /\ TrustingLookup
    /\ tracker_call.result
    /\ tracker_call.stored = {calculate_file_hash("a")}
    /\ \E r \in fixed_issues :
          r.issue_key = tracker_call.key /\ r.branch = tracker_call.branch

\* C37: in every state of the Mistral completion client the session total has
\* total_tokens = prompt_tokens + completion_tokens, whatever usage the provider
\* reported in its responses.
C37_SessionTotalIsSumOfParts ==
    client = "MistralAIClient" =>
        total_usage.total_tokens
            = total_usage.prompt_tokens + total_usage.completion_tokens

\* C28: in a completion call the sleep after the failed attempt of 0-based index
\* i lies between base_delay * 2^i and base_delay * 2^i + 1 second; there is one
\* sleep after each failed attempt but the final one and none after a success,
\* so a call sleeps at most max_retries times.
C28_BackoffSleepBounds ==
    client_call.op = "chat_completion" =>
        /\ Len(slept) <= max_retries
        /\ \A k \in DOMAIN slept :
              /\ slept[k] >= BaseDelayMs * Pow2(k - 1)
              /\ slept[k] <= BaseDelayMs * Pow2(k - 1) + 1000
        /\ client_call.state = "running" => Len(slept) = Len(Attempts)
        /\ client_call.state = "returned" => Len(slept) = Len(Attempts) - 1

\* C28 witness: with max_retries = 2 all three attempts failed; the call slept
\* twice, the second time for 2 * base_delay plus the largest jitter, and not
\* after the final failure.
C28_Witness ==
    /\ client_call.op = "chat_completion"
    /\ client_call.state = "returned"
    /\ max_retries = 2
    /\ Len(Attempts) = 3
    /\ Succeeded(Attempts) = {}
    /\ Len(slept) = 2
    /\ slept[2] = 2 * BaseDelayMs + 1000

\* The last call was a commit_batch of the GitLab committer with files pending.
AtomicFlush ==
    /\ variant = "gitlab"
    /\ batch_call.op = "commit_batch"
    /\ batch_call.before # <<>>

\* C38: in atomic multi-file mode a flush is all-or-nothing: after commit_batch
\* either the host accepted one commit holding every pending file and the pending
\* list is empty, or the host accepted nothing and the pending list is unchanged.
C38_AtomicFlushAllOrNothing ==
    AtomicFlush =>
        \/ /\ batch_call.success
           /\ batch_call.successful = PathsOf(batch_call.before)
           /\ batch_call.failed = <<>>
           /\ pending_files = <<>>
        \/ /\ ~batch_call.success
           /\ batch_call.successful = <<>>
           /\ pending_files = batch_call.before

\* A rejected flush of two pending files kept both of them.
C38_Witness ==
    /\ AtomicFlush
    /\ Len(batch_call.before) = 2
    /\ ~batch_call.success
    /\ pending_files = batch_call.before

\* The last committer call was a flush that committed nothing and kept the batch.
KeptAfterFailedFlush ==
    /\ batch_call.op = "commit_batch"
    /\ ~batch_call.success
    /\ batch_call.successful = <<>>
    /\ batch_call.before = pending_files

\* C27 as stated: under the orchestrator's protocol the number of pending
\* entries never exceeds the batch size between two per-finding steps, a failed
\* flush included.
C27_PendingNeverExceedsBatchSize ==
    Len(pending_files) <= batch_size

\* C27 amended: under the orchestrator's protocol the number of pending entries
\* exceeds the batch size between two per-finding steps only after a flush that
\* failed, the entries of which the GitLab committer keeps for the next flush.
C27_PendingBoundedUnlessFlushFailed ==
    Len(pending_files) > batch_size =>
        variant = "gitlab" /\ KeptAfterFailedFlush

\* C27 witness: the GitLab committer holds two entries with a batch size of one
\* after its flushes failed.
C27_Witness ==
    /\ variant = "gitlab"
    /\ batch_size = 1
    /\ Len(pending_files) = 2
    /\ KeptAfterFailedFlush
    /\ run_pc = "processing"

-----------------------------------------------------------------------------
(***************************************************************************)
(* Extraction of the updated file from an AI response                      *)
(*   CodeSmellProcessor.extract_updated_file, AICodeFixer._extract_updated_file *)
(* A response is a sequence of tokens; adjacent tokens are adjacent text,  *)
(* so "javascript" is the token "java" followed by the token "script".     *)
(***************************************************************************)

\* Longest response, in tokens.
MaxResponse == 4

\* The three backquotes that open or close a code block.
Fence == "FENCE"
Newline == "\n"
OpenMarker == "<UPDATED_FILE>"
CloseMarker == "</UPDATED_FILE>"

Tokens == {Fence, Newline, "java", "script", "x", "Here", OpenMarker, CloseMarker}

Responses == UNION {[1..n -> Tokens] : n \in 0..MaxResponse}

\* An Optional[str]: Python None, or a text.
NoText == [found |-> FALSE, text |-> <<>>]
Text(t) == [found |-> TRUE, text |-> t]

Least(S) == CHOOSE i \in S : \A j \in S : i <= j
Greatest(S) == CHOOSE i \in S : \A j \in S : j <= i

\* str.strip(): the text without its leading and trailing whitespace.
strip(text) ==
    LET inked == {i \in DOMAIN text : text[i] # Newline}
    IN IF inked = {} THEN <<>> ELSE SubSeq(text, Least(inked), Greatest(inked))

\* str.split('\n')
RECURSIVE split(_)
split(text) ==
    LET breaks == {i \in DOMAIN text : text[i] = Newline}
    IN IF breaks = {} THEN <<text>>
       ELSE <<SubSeq(text, 1, Least(breaks) - 1)>>
               \o split(SubSeq(text, Least(breaks) + 1, Len(text)))

\* re.search(fence + tag + '(.*?)' + fence, text, re.DOTALL): the leftmost fence that is
\* followed by the tag and, later, by another fence; group(1) is the text up to
\* the nearest such fence.
search(tag, text) ==
    LET closing(i) == {j \in (i + Len(tag) + 1)..Len(text) : text[j] = Fence}
        starts == {i \in DOMAIN text :
                     /\ text[i] = Fence
                     /\ i + Len(tag) <= Len(text)
                     /\ SubSeq(text, i + 1, i + Len(tag)) = tag
                     /\ closing(i) # {}}
    IN IF starts = {} THEN NoText
       ELSE LET i == Least(starts)
            IN Text(SubSeq(text, i + Len(tag) + 1, Least(closing(i)) - 1))

\* The patterns of extract_updated_file, in the order of the list: the tag each
\* one puts after the fence, the generic pattern last.
patterns ==
    << <<"java">>, <<"python">>, <<"java", "script">>, <<"typescript">>, <<"cpp">>,
       <<"c++">>, <<"csharp">>, <<"go">>, <<"rust">>, <<"php">>, <<"ruby">>,
       <<"scala">>, <<"kotlin">>, <<"swift">>, <<>> >>

\* line.lower().startswith(('here', 'the', 'i ', 'this'))
starts_with_lead_in(line) ==
    line # <<>> /\ line[1] \in {"Here"}

\* CodeSmellProcessor.extract_updated_file
extract_updated_file(response) ==
    LET matching == {p \in DOMAIN patterns : search(patterns[p], response).found}
        lines == split(strip(response))
    IN IF matching # {}
       THEN Text(strip(search(patterns[Least(matching)], response).text))
       ELSE IF /\ Len(lines) > 1
               /\ ~\E k \in DOMAIN lines : k <= 3 /\ starts_with_lead_in(lines[k])
       THEN Text(strip(response))
       ELSE NoText

\* AICodeFixer._extract_updated_file
fixer_extract_updated_file(response) ==
    LET match == search(<<"java">>, response)
    IN IF match.found THEN Text(strip(match.text)) ELSE NoText

ExtractInit ==
    /\ ai_response \in Responses
    /\ extract_call = [op |-> "init", result |-> NoText]

\* self.processor.extract_updated_file(ai_response)
ExtractUpdatedFile ==
    /\ UNCHANGED <<trackerVars, clientVars, batchVars, runVars, ai_response>>
    /\ extract_call' = [op |-> "extract_updated_file",
                        result |-> extract_updated_file(ai_response)]

\* self._extract_updated_file(ai_response) of AICodeFixer
FixerExtractUpdatedFile ==
    /\ UNCHANGED <<trackerVars, clientVars, batchVars, runVars, ai_response>>
    /\ extract_call' = [op |-> "_extract_updated_file",
                        result |-> fixer_extract_updated_file(ai_response)]

ExtractNext ==
    \/ ExtractUpdatedFile
    \/ FixerExtractUpdatedFile

\* The positions of the fences of the response.
FencesOf(text) == {i \in DOMAIN text : text[i] = Fence}

\* The response contains a fenced block: a fence and a later one.
HasFencedBlock(text) == Cardinality(FencesOf(text)) >= 2

\* The end of the first fenced block: the fence next to the first one.
BlockEnd(text) == Least(FencesOf(text) \ {Least(FencesOf(text))})

\* The line breaks inside the first fenced block.
BlockBreaks(text) ==
    {n \in DOMAIN text : /\ text[n] = Newline
                         /\ Least(FencesOf(text)) < n
                         /\ n < BlockEnd(text)}

\* The first fenced block opens with a line that holds a language tag or nothing.
TaggedBlock(text) ==
    /\ HasFencedBlock(text)
    /\ BlockBreaks(text) # {}
    /\ \A k \in (Least(FencesOf(text)) + 1)..(Least(BlockBreaks(text)) - 1) :
          text[k] \in {"java", "script"}

\* The text of the first fenced block below its opening line, trimmed.
BlockBody(text) ==
    strip(SubSeq(text, Least(BlockBreaks(text)) + 1, BlockEnd(text) - 1))

\* C25: extract_updated_file returns, for a response with a fenced code block,
\* the inner text of the block without the language tag of its fence, trimmed,
\* whatever the tag is; for a response without a fenced block it returns the
\* whole trimmed response when the response has several lines and none of the
\* first three starts with a conversational lead-in, and None otherwise.
C25_ExtractReturnsBlockBody ==
    extract_call.op = "extract_updated_file" =>
        /\ TaggedBlock(ai_response) =>
              extract_call.result = Text(BlockBody(ai_response))
        /\ ~HasFencedBlock(ai_response) =>
              LET lines == split(strip(ai_response))
                  plain == /\ Len(lines) > 1
                           /\ \A k \in DOMAIN lines :
                                 k <= 3 => ~(lines[k] # <<>> /\ lines[k][1] = "Here")
              IN extract_call.result =
                    (IF plain THEN Text(strip(ai_response)) ELSE NoText)

\* The positions of the markers of the response.
OpenMarkers(text) == {i \in DOMAIN text : text[i] = OpenMarker}
ClosingMarkers(text) ==
    {j \in DOMAIN text : /\ text[j] = CloseMarker
                         /\ OpenMarkers(text) # {}
                         /\ j > Least(OpenMarkers(text))}

\* C26: AICodeFixer._extract_updated_file returns the text between the
\* <UPDATED_FILE> and </UPDATED_FILE> markers of the response, trimmed, and None
\* when the response has no such markers.
C26_FixerExtractsBetweenMarkers ==
    extract_call.op = "_extract_updated_file" =>
        extract_call.result =
            (IF ClosingMarkers(ai_response) # {}
             THEN Text(strip(SubSeq(ai_response,
                                    Least(OpenMarkers(ai_response)) + 1,
                                    Least(ClosingMarkers(ai_response)) - 1)))
             ELSE NoText)

\* One configuration of each component, for the specifications that leave it idle.
ClientIdle ==
    ClientInit /\ client = "AICodeFixer" /\ ~mock_mode

BatchIdle ==
    BatchInit /\ variant = "gitlab" /\ batch_size = 1

ExtractIdle ==
    ExtractInit /\ ai_response = <<>>

RunIdle ==
    RunInit /\ config.credentials /\ ~config.dry_run /\ ~config.create_mr /\ config.gitlab_branch = "main"
            /\ "DEFAULT_PROMPT" \in rule_prompt_map

\* IssueTracker alone: any sequence of its calls.
TrackerStart ==
    TrackerInit /\ ClientIdle /\ BatchIdle /\ RunIdle /\ ExtractIdle

TrackerSpec == TrackerStart /\ [][TrackerNext]_vars

\* A completion client alone: any sequence of calls, attempts and resets.
ClientStart ==
    TrackerInit /\ ClientInit /\ BatchIdle /\ RunIdle /\ ExtractIdle

ClientSpec == ClientStart /\ [][ClientNext]_vars

\* A completion client of any model, without retries: any sequence of calls.
CostStart ==
    TrackerInit /\ CostClientInit /\ BatchIdle /\ RunIdle /\ ExtractIdle

CostSpec == CostStart /\ [][ClientNext]_vars

\* A batch committer alone: any sequence of add_file and commit_batch.
BatchStart ==
    TrackerInit /\ ClientIdle /\ BatchInit /\ RunIdle /\ ExtractIdle

BatchSpec == BatchStart /\ [][BatchNext]_vars

\* One run of the orchestrator against a Git host, the AI provider and a
\* fingerprint store left by earlier runs.
RunStart ==
    RunTrackerInit /\ RunClientInit /\ BatchInit /\ RunInit /\ ExtractIdle

RunSpec == RunStart /\ [][RunNext]_vars

\* The two extraction functions applied to any response.
ExtractStart ==
    TrackerInit /\ ClientIdle /\ BatchIdle /\ RunIdle /\ ExtractInit

ExtractSpec == ExtractStart /\ [][ExtractNext]_vars

====
